---- MODULE Spec2Model ----
(***************************************************************************)
(* Call-turn streaming orchestration of src/main.py, followed for one      *)
(* call id (CallSid).  Every registry of main.py is a dictionary keyed by  *)
(* the call id and no handler or task touches another key, so the module   *)
(* keeps the entry each registry holds under that one key.                 *)
(*                                                                         *)
(* The program runs on one asyncio event loop: code between two awaits     *)
(* that really suspend is atomic, so every action below is one resumption  *)
(* of a handler or task up to its next suspension.  Queue.put on the       *)
(* unbounded queues and _enqueue never suspend.  Task.cancel() only marks  *)
(* the task: CancelledError is raised in it at its next resumption.        *)
(***************************************************************************)
EXTENDS Integers, Sequences, FiniteSets, TLC

\* Bounds of the model.
MaxTurns == 2          \* caller-utterance webhooks (with SpeechResult)
MaxRaceTurns == 3      \* the same, where only utterances and call end race
MaxFrags == 1          \* fragments one stream_coldcall_reply stream yields
MaxChunks == 1         \* audio chunks one stream_text_to_speech stream yields
MaxDeltas == 5         \* chunks the completion stream of one reply yields
MaxEvents == 2         \* events _enqueue puts on one event queue
MaxLoops == 3          \* iterations of the loop of one /sse generator
MaxCalls == 2          \* POST /calls requests of the backend API
MaxFrames == 2         \* frames the client of one /voice/ws session sends
MaxParts == 4          \* fragments one stream_coldcall_reply call yields
MaxText == 5           \* characters of the text given to split_text_for_tts
MaxChars == 3          \* the max_chars given to split_text_for_tts

\* Program constant (seconds); the continuation is configured when it is > 0.
CONTINUATION_SILENCE_SECONDS == 2

\* Program constants of app/voicebot.py (characters).
MIN_FLUSH_CHARS == 60
MAX_FLUSH_CHARS == 80

Turns == 1..(IF MaxTurns > MaxRaceTurns THEN MaxTurns ELSE MaxRaceTurns)

VARIABLES
  phase,                \* "new" (no request yet), "live", "ended" (terminal status received)
  call_configs,         \* _call_configs[sid]: -1 no entry, else its "turn" value
  event_queues,         \* _event_queues[sid]: [has |-> entry present]
  done_sent,            \* "[DONE]" was put on the event queue _close_stream then popped
  audio_streams,        \* _audio_streams[sid]: 0 no entry, else the queue of turn k
  audio_stream_tasks,   \* _audio_stream_tasks[sid]: 0 no entry, else the task of turn k
  user_activity_events, \* _user_activity_events[sid]: 0 no entry, else the Event turn k made
  queue,                \* the asyncio.Queue each twilio_voice call allocates
  task,                 \* the _stream_reply_audio task of each turn
  bc,                   \* its backchannel_task
  handler,              \* the twilio_voice request of each utterance
  status,               \* the status_webhook request carrying the terminal status
  consumer,             \* the stream_audio_response iterator bound to each queue
  hist,                 \* history: what each turn put on its queue, what was delivered
  reply,                \* one stream_coldcall_reply generator (app/voicebot.py)
  sse,                  \* one GET /sse?sid= subscription and the event queue it reads
  bg,                   \* requests that schedule background logging, and their runner() tasks
  store,                \* the CallStore of the backend API (backend/store.py) and its last response
  ws,                   \* one /voice/ws session (agent/ws_voice_agent.py)
  hook,                 \* one POST /twilio-voice request (twilio_utils/webhook_handler.py)
  coldcall,             \* one call of coldcall_lead or stream_coldcall_reply, from its start
  chunker,              \* one call of split_text_for_tts (tts_chunker.py)
  tts                   \* one call of elevenlabs_tts_to_bytes (tts_chunker.py)

\* The state of main.py, and the state of the other components.
mainVars == <<phase, call_configs, event_queues, done_sent, audio_streams,
              audio_stream_tasks, user_activity_events, queue, task, bc,
              handler, status, consumer, hist>>

auxVars == <<reply, sse, bg, store, ws, hook, coldcall, chunker, tts>>

\* What the steps of each of the other components leave alone.
replyFrame == <<mainVars, sse, bg, store, ws, hook, coldcall, chunker, tts>>
sseFrame == <<mainVars, reply, bg, store, ws, hook, coldcall, chunker, tts>>
bgFrame == <<mainVars, reply, sse, store, ws, hook, coldcall, chunker, tts>>
storeFrame == <<mainVars, reply, sse, bg, ws, hook, coldcall, chunker, tts>>
wsFrame == <<mainVars, reply, sse, bg, store, hook, coldcall, chunker, tts>>
hookFrame == <<mainVars, reply, sse, bg, store, ws, coldcall, chunker, tts>>
coldcallFrame == <<mainVars, reply, sse, bg, store, ws, hook, chunker, tts>>
chunkerFrame == <<mainVars, reply, sse, bg, store, ws, hook, coldcall, tts>>
ttsFrame == <<mainVars, reply, sse, bg, store, ws, hook, coldcall, chunker>>

vars == <<mainVars, auxVars>>

NewTask ==
  [pc |-> "none", cancel |-> FALSE, cat |-> "", seq |-> 0, turn |-> 0,
   early |-> FALSE, parts |-> 0, fce |-> FALSE, n |-> 0, ev |-> "none", cparts |-> 0,
   reply_event |-> FALSE, logged |-> FALSE, error_event |-> FALSE,
   cont_event |-> FALSE]

NewBc == [pc |-> "none", cancel |-> FALSE, n |-> 0]

NewHist ==
  [filler |-> 0, reply |-> 0, cont |-> 0, sent |-> 0, fin |-> FALSE,
   late |-> FALSE, heard |-> FALSE]

\* stream_coldcall_reply once the completion stream is open: its buffer, the
\* fragments it has yielded and the stream chunks it has received.  Text is a
\* sequence of one-character strings.
NewReply == [pc |-> "stream", buffer |-> <<>>, out |-> <<>>, n |-> 0]

Loops == 1..MaxLoops

\* GET /sse?sid=: the asyncio.Queue of the call (its items and its waiting
\* getters), the generator gen() of the one subscriber, and the msg_task and
\* hb_task each of its loop iterations creates.
NewSse ==
  [pc |-> "idle", loops |-> 0, q |-> <<>>, getters |-> <<>>,
   msg_task |-> [i \in Loops |-> [pc |-> "none", result |-> <<>>]],
   hb_task |-> [i \in Loops |-> "none"],
   sent |-> <<>>, put |-> 0, closed |-> FALSE]

\* The endpoints that call _schedule_background_coroutine, and the
\* descriptions of the coroutines they schedule.
Requests == {"transcribe", "call", "status"}

Coroutines ==
  {"conversation log", "lead log", "call log", "call event", "status log"}

\* One request per endpoint (pc, HTTP status of its response: 0 none yet) and
\* the runner() task of each description (how often coro_func was entered,
\* whether it raised, whether logger.exception was called).
NewBg ==
  [req |-> [r \in Requests |-> [pc |-> "idle", resp |-> 0]],
   co |-> [c \in Coroutines |->
             [pc |-> "none", runs |-> 0, raised |-> FALSE, logged |-> FALSE]]]

\* The backend API: whether Twilio is configured, CallStore._calls (call ids
\* are 1, 2, ... in creation order; a record is its status and provider_sid,
\* 0 standing for None), the JSON file, and the last request with its answer.
NoRequest == [op |-> "none", id |-> 0, status |-> "", provider_sid |-> 0,
              code |-> 0, body |-> <<>>]

NewStore(enabled) ==
  [enabled |-> enabled, calls |-> <<>>, file |-> <<>>, last |-> NoRequest]

\* A /voice/ws session after ws.accept(), with consumer_task created:
\* ENABLE_TTS, voice_ws ("wait" in wait_for, "timeout" wait_for is cancelling
\* the task it awaited, "closed" after conn.close()), the consumer task, the
\* frames the client sent that receive_text has not returned yet, the
\* user_text frames it returned, and the frames sent to the client.
NewWs(enable_tts) ==
  [enable_tts |-> enable_tts, pc |-> "wait",
   consumer |-> [pc |-> "recv", cancel |-> FALSE, cur |-> 0],
   inbox |-> <<>>, frames |-> 0, got |-> <<>>, out |-> <<>>]

\* POST /twilio-voice of the webhook router: the module's settings
\* (ENABLE_TWILIO_SIG_CHECK, whether TWILIO_AUTH_TOKEN is non-empty, whether
\* the guarded imports of coldcall_lead and speak_text succeeded), the request
\* (SpeechResult: "None" absent, "" empty, else the text; whether its signature is
\* the expected one), where the handler is, which step failed, the reply
\* text ("None": none), what speak_text was given ("None": not called), and the
\* response (status 0: none yet).
NoResponse == [status_code |-> 0, content |-> <<>>, media_type |-> ""]

NewHook(sig_check, token, lead_ok, speak_ok) ==
  [ENABLE_TWILIO_SIG_CHECK |-> sig_check, TWILIO_AUTH_TOKEN |-> token,
   coldcall_lead |-> lead_ok, speak_text |-> speak_ok,
   pc |-> "idle", SpeechResult |-> "None", signed |-> FALSE, failed |-> "",
   reply_text |-> "None", spoken |-> "None", response |-> NoResponse]

\* A call of stream_coldcall_reply or of coldcall_lead, from its start:
\* whether the OpenAI SDK could be imported, whether OPENAI_API_KEY is set,
\* whether async_client is a client (FALSE: None), the function called, the
\* max_tokens of the request (0: not set), the number of fragments yielded
\* (stream_coldcall_reply) or collected (coldcall_lead), and the message of
\* the RuntimeError raised, as the sequence of its parts.
NewColdcallWith(sdk, key, client) ==
  [sdk |-> sdk, key |-> key, async_client |-> client, pc |-> "idle",
   entry |-> "", max_tokens |-> 0, parts |-> 0, error |-> <<>>]

NewColdcall == NewColdcallWith(TRUE, TRUE, TRUE)

\* A call of split_text_for_tts: its arguments (text is a sequence of
\* one-character strings) and the list it returns.
NewChunkerWith(text, max_chars) ==
  [pc |-> "call", text |-> text, max_chars |-> max_chars, out |-> <<>>]

NewChunker == NewChunkerWith(<<>>, 1)

\* A call of elevenlabs_tts_to_bytes: whether ELEVEN_API_KEY is set, the
\* loop variable attempt, the outcome of every requests.post so far, the
\* argument of every time.sleep so far, and how the call ended.
NewTtsWith(api_key) ==
  [ELEVEN_API_KEY |-> api_key, pc |-> "call", attempt |-> 0, posts |-> <<>>,
   sleeps |-> <<>>, result |-> ""]

NewTts == NewTtsWith(TRUE)

\* The other components as Spec, RaceSpec and FairSpec leave them.
RestInit ==
  /\ hook = NewHook(FALSE, FALSE, TRUE, TRUE)
  /\ coldcall = NewColdcall
  /\ chunker = NewChunker
  /\ tts = NewTts

\* The state of main.py after start-up.
MainInit ==
  /\ phase = "new"
  /\ call_configs = -1
  /\ event_queues = [has |-> FALSE]
  /\ done_sent = FALSE
  /\ audio_streams = 0
  /\ audio_stream_tasks = 0
  /\ user_activity_events = 0
  /\ queue = [k \in Turns |-> <<>>]
  /\ task = [k \in Turns |-> NewTask]
  /\ bc = [k \in Turns |-> NewBc]
  /\ handler = [k \in Turns |-> [pc |-> "idle", waits |-> 0]]
  /\ status = [pc |-> "idle", waits |-> 0]
  /\ consumer = [k \in Turns |-> "idle"]
  /\ hist = [turn |-> [k \in Turns |-> NewHist], tasks |-> 0, last |-> 0,
             max |-> 0]

Init ==
  /\ MainInit
  /\ reply = NewReply
  /\ sse = NewSse
  /\ bg = NewBg
  /\ store = NewStore(FALSE)
  /\ ws = NewWs(FALSE)
  /\ RestInit

(***************************************************************************)
(* Registry helpers (main.py, "SSE (per-call)" section).                   *)
(***************************************************************************)

\* _enqueue: create the event queue when the entry is missing, then put.
\* Only the presence of the entry is kept: the readers of the payloads (the
\* SSE subscribers) are outside this specification, and the events a turn
\* emits are recorded in its task record.
Enqueue(eq, kind) == [has |-> TRUE]

\* _mark_user_activity: set the registered Event, if any.
\* The Event of a finished task has no reader left and is not tracked.
MarkUserActivity(tk) ==
  IF user_activity_events = 0 \/ tk[user_activity_events].ev = "none" THEN tk
  ELSE [tk EXCEPT ![user_activity_events].ev = "set"]

\* queue.put(audio_chunk) by turn k, with the history of what it pushed.
PutChunk(qs, k, kind) == [qs EXCEPT ![k] = Append(@, kind)]

NoteChunk(h, k, kind) ==
  [h EXCEPT !.turn[k][kind] = @ + 1,
            !.turn[k].late = @ \/ task[k].cancel]

\* queue.put(None) on the queue of turn k.
PutSentinel(qs, k) == [qs EXCEPT ![k] = Append(@, "None")]

NoteSentinel(h, k) == [h EXCEPT !.turn[k].sent = @ + 1]

\* The None the task of turn k puts itself, in its finally block.
NoteFinally(h, k) == [NoteSentinel(h, k) EXCEPT !.turn[k].fin = TRUE]

\* Task.cancel(): a finished task is left alone; a task awaiting its
\* backchannel task in the finally block passes the request on to it (already
\* requested there); any other task gets CancelledError at its next resumption.
Cancel(tk, t) ==
  IF tk[t].pc = "done" THEN tk ELSE [tk EXCEPT ![t].cancel = TRUE]

\* A _stop_audio_stream that pops the queue entry without putting None.
StopQueueSilent(qs) == qs

\* _stop_audio_stream, first half: pop the queue entry and put None on it,
\* pop the task entry and cancel it.
StopQueue(qs) ==
  IF audio_streams = 0 THEN qs ELSE PutSentinel(qs, audio_streams)

StopHist(h) ==
  IF audio_streams = 0 THEN h ELSE NoteSentinel(h, audio_streams)

StopTask(tk) ==
  IF audio_stream_tasks = 0 THEN tk ELSE Cancel(tk, audio_stream_tasks)

\* _stop_audio_stream, second half: "await task" suspends unless there is no
\* task or it is already done.
StopSuspends ==
  audio_stream_tasks # 0 /\ task[audio_stream_tasks].pc # "done"

Unfinished(j) == task[j].pc \notin {"none", "done"}

(***************************************************************************)
(* Request handlers.  The provider sends no new webhook for a call after   *)
(* its terminal status; a request it sent before, whose handler is         *)
(* suspended when the status arrives, resumes afterwards.                  *)
(***************************************************************************)

\* POST /call: the call configuration is stored before any webhook of the
\* call can arrive, and the "initiated" event is enqueued.
CallLead ==
  /\ phase = "new"
  /\ call_configs = -1
  /\ ~event_queues.has
  /\ call_configs' = 0
  /\ event_queues' = Enqueue(event_queues, "initiated")
  /\ phase' = "live"
  /\ UNCHANGED <<done_sent, audio_streams, audio_stream_tasks,
                 user_activity_events, queue, task, bc, handler, status,
                 consumer, hist>>
  /\ UNCHANGED auxVars

\* twilio_voice, tail: allocate the queue, register it, create the task and
\* register it.  The task starts at a later resumption.
Install(k, tk, h) ==
  /\ task' = [tk EXCEPT ![k].pc = "new", ![k].seq = h.tasks + 1]
  /\ hist' = [h EXCEPT !.tasks = @ + 1]
  /\ audio_streams' = k
  /\ audio_stream_tasks' = k

\* POST /twilio-voice with SpeechResult, from the top to "await task" in
\* _stop_audio_stream, or to the end when that await does not suspend.
TwilioVoice(k) ==
  /\ phase # "ended"
  /\ handler[k].pc = "idle"
  /\ k > 1 => handler[k - 1].pc # "idle"
  /\ phase' = "live"
  /\ queue' = StopQueue(queue)
  /\ IF StopSuspends
       THEN /\ task' = StopTask(MarkUserActivity(task))
            /\ hist' = StopHist(hist)
            /\ audio_streams' = 0
            /\ audio_stream_tasks' = 0
            /\ handler' = [handler EXCEPT
                 ![k] = [pc |-> "await", waits |-> audio_stream_tasks]]
       ELSE /\ Install(k, StopTask(MarkUserActivity(task)), StopHist(hist))
            /\ handler' = [handler EXCEPT
                 ![k] = [pc |-> "done", waits |-> 0]]
  /\ UNCHANGED <<call_configs, event_queues, done_sent,
                 user_activity_events, bc, status, consumer>>
  /\ UNCHANGED auxVars

\* twilio_voice resumes once the cancelled task has finished.
TwilioVoiceResume(k) ==
  /\ handler[k].pc = "await"
  /\ task[handler[k].waits].pc = "done"
  /\ Install(k, task, hist)
  /\ handler' = [handler EXCEPT ![k].pc = "done"]
  /\ UNCHANGED <<phase, call_configs, event_queues, done_sent,
                 user_activity_events, queue, bc, status, consumer>>
  /\ UNCHANGED auxVars

\* POST /twilio-partial with a transcript; h is the history after it.
PartialTranscript(h) ==
  /\ phase # "ended"
  /\ task' = MarkUserActivity(task)
  /\ event_queues' = Enqueue(event_queues, "partial")
  /\ phase' = "live"
  /\ hist' = h
  /\ UNCHANGED <<call_configs, done_sent, audio_streams,
                 audio_stream_tasks, user_activity_events, queue, bc, handler,
                 status, consumer>>
  /\ UNCHANGED auxVars

TwilioPartial == PartialTranscript(hist)

\* The same request, with the history noting for which first turns the
\* transcript arrived after the task had started and before its follow-up
\* could begin (heard).
NoteActivity(h) ==
  [h EXCEPT !.turn =
     [k \in Turns |->
        [@[k] EXCEPT !.heard =
           @ \/ (task[k].turn = 1
                   /\ task[k].pc \in {"gen", "lock", "tts", "log", "wait"})]]]

TwilioPartialNoted == PartialTranscript(NoteActivity(hist))

\* POST /status with a non-terminal CallStatus: only the event is enqueued.
StatusProgress ==
  /\ phase # "ended"
  /\ event_queues' = Enqueue(event_queues, "status")
  /\ phase' = "live"
  /\ UNCHANGED <<call_configs, done_sent, audio_streams,
                 audio_stream_tasks, user_activity_events, queue, task, bc,
                 handler, status, consumer, hist>>
  /\ UNCHANGED auxVars

\* POST /status with completed, failed, busy, no-answer or canceled: the
\* event is enqueued, then _close_stream runs up to "await task".
StatusTerminal ==
  /\ phase # "ended"
  /\ status.pc = "idle"
  /\ phase' = "ended"
  /\ done_sent' = Enqueue(event_queues, "status").has
  /\ event_queues' = [has |-> FALSE]
  /\ call_configs' = -1
  /\ user_activity_events' = 0
  /\ queue' = StopQueue(queue)
  /\ hist' = StopHist(hist)
  /\ task' = StopTask(task)
  /\ audio_streams' = 0
  /\ audio_stream_tasks' = 0
  /\ status' = IF StopSuspends
                 THEN [pc |-> "await", waits |-> audio_stream_tasks]
                 ELSE [pc |-> "done", waits |-> 0]
  /\ UNCHANGED <<bc, handler, consumer>>
  /\ UNCHANGED auxVars

\* status_webhook resumes once the cancelled task has finished, and returns.
StatusResume ==
  /\ status.pc = "await"
  /\ task[status.waits].pc = "done"
  /\ status' = [status EXCEPT !.pc = "done"]
  /\ UNCHANGED <<phase, call_configs, event_queues, done_sent,
                 audio_streams, audio_stream_tasks, user_activity_events,
                 queue, task, bc, handler, consumer, hist>>
  /\ UNCHANGED auxVars

\* GET /audio/response-stream: bind to the registered queue (404 otherwise,
\* which changes nothing).  A relay queue has exactly one reader (the
\* provider fetches the <Play> URL of a response once), so the iterator is
\* named after the queue it reads.
StreamAudioResponse ==
  /\ audio_streams # 0
  /\ consumer[audio_streams] = "idle"
  /\ consumer' = [consumer EXCEPT ![audio_streams] = "read"]
  /\ UNCHANGED <<phase, call_configs, event_queues, done_sent,
                 audio_streams, audio_stream_tasks, user_activity_events,
                 queue, task, bc, handler, status, hist>>
  /\ UNCHANGED auxVars

\* iterator(): one queue.get(); None ends the response, anything else is
\* delivered to the caller.
IteratorGet(q) ==
  /\ consumer[q] = "read"
  /\ queue[q] # <<>>
  /\ queue' = [queue EXCEPT ![q] = Tail(@)]
  /\ IF Head(queue[q]) = "None"
       THEN /\ consumer' = [consumer EXCEPT ![q] = "done"]
            /\ hist' = hist
       ELSE /\ consumer' = consumer
            /\ hist' = [hist EXCEPT
                 !.last = task[q].seq,
                 !.max = IF task[q].seq > @ THEN task[q].seq ELSE @]
  /\ UNCHANGED <<phase, call_configs, event_queues, done_sent,
                 audio_streams, audio_stream_tasks, user_activity_events,
                 task, bc, handler, status>>
  /\ UNCHANGED auxVars

(***************************************************************************)
(* _stream_reply_audio: the task of turn k.                                *)
(*   pc: "new" created, "gen" awaiting the reply generator, "lock"         *)
(*   awaiting write_lock, "tts" awaiting the synthesizer, "log" awaiting   *)
(*   log_conversation, "wait" in wait_for, "cgen"/"ctts"/"clog" the same   *)
(*   inside _stream_continuation, "fin" awaiting backchannel_task in the   *)
(*   finally block, "done".                                                *)
(* write_lock is held by the backchannel task while it is in "tts" and by  *)
(* the turn task while it is in "tts" or "ctts".                           *)
(***************************************************************************)

\* The task can take an ordinary step: no CancelledError is pending.
Runs(k, pc) == task[k].pc = pc /\ ~task[k].cancel

\* backchannel_task.done()
BackchannelDone(k) == bc[k].pc = "done"

\* write_lock is held by the backchannel task.
LockedByBackchannel(k) == bc[k].pc = "tts"

\* The record of a finished task: its locals are gone (parts, the Events, the
\* chunk counter); what it did stays.
Finished(t) ==
  [t EXCEPT !.pc = "done", !.parts = 0, !.cparts = 0, !.n = 0,
            !.fce = FALSE, !.ev = "none"]

\* A finally block that drops the registry entries without putting None.
FinallyTailNoSentinel(k, tk) ==
  /\ task' = [tk EXCEPT ![k] = Finished(@)]
  /\ queue' = queue
  /\ hist' = hist
  /\ audio_streams' = IF audio_streams = k THEN 0 ELSE audio_streams
  /\ audio_stream_tasks' =
       IF audio_stream_tasks = k THEN 0 ELSE audio_stream_tasks

\* A finally block that drops whatever the registries hold for the call.
FinallyTailPopsAll(k, tk) ==
  /\ task' = [tk EXCEPT ![k] = Finished(@)]
  /\ queue' = PutSentinel(queue, k)
  /\ hist' = NoteFinally(hist, k)
  /\ audio_streams' = 0
  /\ audio_stream_tasks' = 0

\* finally, after the backchannel task is done: put None, then drop the
\* registry entries only if they are still this turn's.
FinallyTail(k, tk) ==
  /\ task' = [tk EXCEPT ![k] = Finished(@)]
  /\ queue' = PutSentinel(queue, k)
  /\ hist' = NoteFinally(hist, k)
  /\ audio_streams' = IF audio_streams = k THEN 0 ELSE audio_streams
  /\ audio_stream_tasks' =
       IF audio_stream_tasks = k THEN 0 ELSE audio_stream_tasks

\* finally: cancel and await the backchannel task unless it is done.
Finally(k, tk) ==
  IF BackchannelDone(k)
    THEN /\ FinallyTail(k, tk)
         /\ bc' = bc
    ELSE /\ task' = [tk EXCEPT ![k].pc = "fin"]
         /\ bc' = [bc EXCEPT ![k].cancel = TRUE]
         /\ UNCHANGED <<queue, hist, audio_streams, audio_stream_tasks>>

\* First resumption: bump the turn counter, create the backchannel task,
\* request the reply stream.
TaskStart(k) ==
  /\ Runs(k, "new")
  /\ LET turn == (IF call_configs = -1 THEN 0 ELSE call_configs) + 1
     IN /\ call_configs' = turn
        /\ task' = [task EXCEPT ![k].pc = "gen", ![k].turn = turn]
  /\ bc' = [bc EXCEPT ![k].pc = "sleep"]
  /\ UNCHANGED <<phase, event_queues, done_sent, audio_streams,
                 audio_stream_tasks, user_activity_events, queue, handler,
                 status, consumer, hist>>
  /\ UNCHANGED auxVars

\* How the body of the task ended is kept in cat: "" (it ran to its end or is
\* still running), "raised" (a stream raised), "activity" (wait_for returned
\* because of caller activity), "new" (cancelled before it
\* started), or where CancelledError reached it: before the reply generator
\* stream had ended ("reply"), or after it ("after").
CancelPoint(pc) == IF pc \in {"gen", "lock", "tts"} THEN "reply" ELSE "after"

\* CancelledError is raised in the task at its await.  A task that never
\* started finishes without running any of its body; otherwise "except
\* CancelledError: raise" leads to the finally block.
TaskCancelled(k) ==
  /\ task[k].cancel
  /\ task[k].cat = ""
  /\ task[k].pc \notin {"none", "fin", "done"}
  /\ IF task[k].pc = "new"
       THEN /\ task' = [task EXCEPT ![k].pc = "done", ![k].cat = "new"]
            /\ UNCHANGED <<bc, queue, hist, audio_streams, audio_stream_tasks>>
       ELSE Finally(k, [task EXCEPT ![k].cat = CancelPoint(task[k].pc),
                                     ![k].n = 0])
  /\ UNCHANGED <<phase, call_configs, event_queues, done_sent,
                 user_activity_events, handler, status, consumer>>
  /\ UNCHANGED auxVars

\* The awaited backchannel task is done: the finally block completes.
TaskFinish(k) ==
  /\ task[k].pc = "fin"
  /\ BackchannelDone(k)
  /\ FinallyTail(k, task)
  /\ UNCHANGED <<phase, call_configs, event_queues, done_sent,
                 user_activity_events, bc, handler, status, consumer>>
  /\ UNCHANGED auxVars

\* A reply loop that emits the reply event and records the turn as soon as
\* the first fragment is there.
ReplyFragmentEmits(k) ==
  /\ Runs(k, "gen")
  /\ task[k].parts < MaxFrags
  /\ task' = [task EXCEPT ![k].parts = @ + 1, ![k].fce = TRUE, ![k].n = 0,
                          ![k].reply_event = TRUE, ![k].logged = TRUE,
                          ![k].pc = IF LockedByBackchannel(k)
                                      THEN "lock" ELSE "tts"]
  /\ UNCHANGED <<phase, call_configs, event_queues, done_sent,
                 audio_streams, audio_stream_tasks, user_activity_events,
                 queue, bc, handler, status, consumer, hist>>
  /\ UNCHANGED auxVars

\* The reply generator yields a fragment: record it, set first_chunk_event,
\* take write_lock (or wait for it) and request its synthesis.
ReplyFragment(k) ==
  /\ Runs(k, "gen")
  /\ task[k].parts < MaxFrags
  /\ task' = [task EXCEPT ![k].parts = @ + 1, ![k].fce = TRUE, ![k].n = 0,
                          ![k].early = @ \/ (~task[k].fce /\ bc[k].pc = "sleep"),
                          ![k].pc = IF LockedByBackchannel(k)
                                      THEN "lock" ELSE "tts"]
  /\ UNCHANGED <<phase, call_configs, event_queues, done_sent,
                 audio_streams, audio_stream_tasks, user_activity_events,
                 queue, bc, handler, status, consumer, hist>>
  /\ UNCHANGED auxVars

\* write_lock is released to the waiting turn task.
ReplyLockAcquired(k) ==
  /\ Runs(k, "lock")
  /\ ~LockedByBackchannel(k)
  /\ task' = [task EXCEPT ![k].pc = "tts"]
  /\ UNCHANGED <<phase, call_configs, event_queues, done_sent,
                 audio_streams, audio_stream_tasks, user_activity_events,
                 queue, bc, handler, status, consumer, hist>>
  /\ UNCHANGED auxVars

\* The synthesizer yields a chunk of a reply fragment: it is put on the queue.
ReplyChunk(k) ==
  /\ Runs(k, "tts")
  /\ task[k].n < MaxChunks
  /\ task' = [task EXCEPT ![k].n = @ + 1]
  /\ queue' = PutChunk(queue, k, "reply")
  /\ hist' = NoteChunk(hist, k, "reply")
  /\ UNCHANGED <<phase, call_configs, event_queues, done_sent,
                 audio_streams, audio_stream_tasks, user_activity_events,
                 bc, handler, status, consumer>>
  /\ UNCHANGED auxVars

\* The synthesizer stream of a fragment ends: release the lock, next fragment.
ReplySynthEnd(k) ==
  /\ Runs(k, "tts")
  /\ task' = [task EXCEPT ![k].pc = "gen", ![k].n = 0]
  /\ UNCHANGED <<phase, call_configs, event_queues, done_sent,
                 audio_streams, audio_stream_tasks, user_activity_events,
                 queue, bc, handler, status, consumer, hist>>
  /\ UNCHANGED auxVars

\* is_first_turn = turn == 1
IsFirstTurn(t) == t.turn = 1

\* _prepare_for_next_user_activity, then the continuation decision: wait for
\* activity on a first turn with a reply, otherwise go to the finally block.
AfterReply(k, tk) ==
  /\ user_activity_events' = k
  /\ IF IsFirstTurn(tk[k]) /\ tk[k].parts > 0
        /\ CONTINUATION_SILENCE_SECONDS > 0
       THEN /\ task' = [tk EXCEPT ![k].ev = "clear", ![k].pc = "wait"]
            /\ UNCHANGED <<bc, queue, hist, audio_streams, audio_stream_tasks>>
       ELSE Finally(k, [tk EXCEPT ![k].ev = "clear"])

\* The reply generator stream ends.  With reply text: emit the reply event
\* and call log_conversation.  Without: straight to the continuation
\* decision.
ReplyEnd(k) ==
  /\ Runs(k, "gen")
  /\ IF task[k].parts > 0
       THEN /\ event_queues' = Enqueue(event_queues, "reply")
            /\ task' = [task EXCEPT ![k].pc = "log", ![k].reply_event = TRUE,
                                    ![k].logged = TRUE]
            /\ UNCHANGED <<user_activity_events, bc, queue, hist,
                           audio_streams, audio_stream_tasks>>
       ELSE /\ event_queues' = event_queues
            /\ AfterReply(k, task)
  /\ UNCHANGED <<phase, call_configs, done_sent, handler, status,
                 consumer>>
  /\ UNCHANGED auxVars

\* log_conversation returns.
LogReturn(k) ==
  /\ Runs(k, "log")
  /\ AfterReply(k, task)
  /\ UNCHANGED <<phase, call_configs, event_queues, done_sent, handler,
                 status, consumer>>
  /\ UNCHANGED auxVars

\* A recorder failure that reaches "except Exception" of the turn.
LogRaisesEscapes(k) ==
  /\ Runs(k, "log")
  /\ event_queues' = Enqueue(event_queues, "error")
  /\ Finally(k, [task EXCEPT ![k].error_event = TRUE, ![k].cat = "raised"])
  /\ UNCHANGED <<phase, call_configs, done_sent, user_activity_events,
                 handler, status, consumer>>
  /\ UNCHANGED auxVars

\* log_conversation (or the construction of its argument) raises: the
\* exception is suppressed and the turn goes on as if the call had returned.
LogRaises(k) ==
  /\ Runs(k, "log")
  /\ AfterReply(k, task)
  /\ UNCHANGED <<phase, call_configs, event_queues, done_sent, handler,
                 status, consumer>>
  /\ UNCHANGED auxVars

\* The generator or the synthesizer raises, in the reply or the
\* continuation: "except Exception" emits the error event, then finally.
StreamRaises(k) ==
  /\ \E pc \in {"gen", "tts", "cgen", "ctts"} : Runs(k, pc)
  /\ event_queues' = Enqueue(event_queues, "error")
  /\ Finally(k, [task EXCEPT ![k].error_event = TRUE, ![k].cat = "raised",
                                ![k].n = 0])
  /\ UNCHANGED <<phase, call_configs, done_sent, user_activity_events,
                 handler, status, consumer>>
  /\ UNCHANGED auxVars

\* A wait_for that starts the follow-up although the Event was set.
WaitActivityIgnored(k) ==
  /\ Runs(k, "wait")
  /\ task[k].ev = "set"
  /\ task' = [task EXCEPT ![k].pc = "cgen"]
  /\ UNCHANGED <<phase, call_configs, event_queues, done_sent,
                 audio_streams, audio_stream_tasks, user_activity_events,
                 queue, bc, handler, status, consumer, hist>>
  /\ UNCHANGED auxVars

\* wait_for returns because the Event was set: no continuation.
WaitActivity(k) ==
  /\ Runs(k, "wait")
  /\ task[k].ev = "set"
  /\ Finally(k, [task EXCEPT ![k].cat = "activity"])
  /\ UNCHANGED <<phase, call_configs, event_queues, done_sent,
                 user_activity_events, handler, status, consumer>>
  /\ UNCHANGED auxVars

\* A turn that ends at the timeout of wait_for without any follow-up.
WaitTimeoutSkips(k) ==
  /\ Runs(k, "wait")
  /\ task[k].ev = "clear"
  /\ Finally(k, task)
  /\ UNCHANGED <<phase, call_configs, event_queues, done_sent,
                 user_activity_events, handler, status, consumer>>
  /\ UNCHANGED auxVars

\* wait_for times out: _stream_continuation requests the follow-up stream.
WaitTimeout(k) ==
  /\ Runs(k, "wait")
  /\ task[k].ev = "clear"
  /\ task' = [task EXCEPT ![k].pc = "cgen"]
  /\ UNCHANGED <<phase, call_configs, event_queues, done_sent,
                 audio_streams, audio_stream_tasks, user_activity_events,
                 queue, bc, handler, status, consumer, hist>>
  /\ UNCHANGED auxVars

\* The follow-up generator yields a fragment: return if there was activity,
\* else take write_lock (free by now) and request its synthesis.
ContinuationFragment(k) ==
  /\ Runs(k, "cgen")
  /\ task[k].cparts < MaxFrags
  /\ IF task[k].ev = "set"
       THEN Finally(k, task)
       ELSE /\ task' = [task EXCEPT ![k].cparts = @ + 1, ![k].n = 0,
                                    ![k].pc = "ctts"]
            /\ UNCHANGED <<bc, queue, hist, audio_streams, audio_stream_tasks>>
  /\ UNCHANGED <<phase, call_configs, event_queues, done_sent,
                 user_activity_events, handler, status, consumer>>
  /\ UNCHANGED auxVars

\* A follow-up loop that puts every chunk on the queue without looking at
\* the Event.
ContinuationChunkUnchecked(k) ==
  /\ Runs(k, "ctts")
  /\ task[k].n < MaxChunks
  /\ task' = [task EXCEPT ![k].n = @ + 1]
  /\ queue' = PutChunk(queue, k, "cont")
  /\ hist' = NoteChunk(hist, k, "cont")
  /\ UNCHANGED <<phase, call_configs, event_queues, done_sent,
                 audio_streams, audio_stream_tasks, user_activity_events,
                 bc, handler, status, consumer>>
  /\ UNCHANGED auxVars

\* The synthesizer yields a chunk of a follow-up fragment: break if there
\* was activity, else put it on the queue.
ContinuationChunk(k) ==
  /\ Runs(k, "ctts")
  /\ task[k].n < MaxChunks
  /\ IF task[k].ev = "set"
       THEN /\ task' = [task EXCEPT ![k].pc = "cgen", ![k].n = 0]
            /\ UNCHANGED <<queue, hist>>
       ELSE /\ task' = [task EXCEPT ![k].n = @ + 1]
            /\ queue' = PutChunk(queue, k, "cont")
            /\ hist' = NoteChunk(hist, k, "cont")
  /\ UNCHANGED <<phase, call_configs, event_queues, done_sent,
                 audio_streams, audio_stream_tasks, user_activity_events,
                 bc, handler, status, consumer>>
  /\ UNCHANGED auxVars

\* The synthesizer stream of a follow-up fragment ends.
ContinuationSynthEnd(k) ==
  /\ Runs(k, "ctts")
  /\ task' = [task EXCEPT ![k].pc = "cgen", ![k].n = 0]
  /\ UNCHANGED <<phase, call_configs, event_queues, done_sent,
                 audio_streams, audio_stream_tasks, user_activity_events,
                 queue, bc, handler, status, consumer, hist>>
  /\ UNCHANGED auxVars

\* The follow-up generator stream ends: with text and no activity, emit the
\* continuation event and call log_conversation.
ContinuationEnd(k) ==
  /\ Runs(k, "cgen")
  /\ IF task[k].cparts > 0 /\ task[k].ev # "set"
       THEN /\ event_queues' = Enqueue(event_queues, "continuation")
            /\ task' = [task EXCEPT ![k].pc = "clog", ![k].cont_event = TRUE]
            /\ UNCHANGED <<bc, queue, hist, audio_streams, audio_stream_tasks>>
       ELSE /\ event_queues' = event_queues
            /\ Finally(k, task)
  /\ UNCHANGED <<phase, call_configs, done_sent, user_activity_events,
                 handler, status, consumer>>
  /\ UNCHANGED auxVars

\* log_conversation of the follow-up returns or raises (suppressed).
ContinuationLogReturn(k) ==
  /\ Runs(k, "clog")
  /\ Finally(k, task)
  /\ UNCHANGED <<phase, call_configs, event_queues, done_sent,
                 user_activity_events, handler, status, consumer>>
  /\ UNCHANGED auxVars

(***************************************************************************)
(* _emit_backchannel: the backchannel task of turn k.                      *)
(*   pc: "none" not created, "sleep" in asyncio.sleep, "tts" streaming the *)
(*   filler under write_lock, "done".  The lock is free when it is taken:  *)
(*   the turn task takes it only after setting first_chunk_event, and the  *)
(*   check of that event and the acquisition happen in one resumption.     *)
(***************************************************************************)

BackchannelRuns(k, pc) == bc[k].pc = pc /\ ~bc[k].cancel

\* A backchannel that never looks at first_chunk_event.
FirstChunkIgnored(k) == FALSE

\* first_chunk_event.is_set()
FirstChunkSeen(k) == task[k].fce

\* The delay elapses: return if the reply has started, else emit the
\* backchannel event, take write_lock and request the filler's synthesis.
BackchannelTimer(k) ==
  /\ BackchannelRuns(k, "sleep")
  /\ IF FirstChunkSeen(k)
       THEN /\ bc' = [bc EXCEPT ![k].pc = "done"]
            /\ event_queues' = event_queues
       ELSE /\ bc' = [bc EXCEPT ![k].pc = "tts", ![k].n = 0]
            /\ event_queues' = Enqueue(event_queues, "backchannel")
  /\ UNCHANGED <<phase, call_configs, done_sent, audio_streams,
                 audio_stream_tasks, user_activity_events, queue, task,
                 handler, status, consumer, hist>>
  /\ UNCHANGED auxVars

\* A backchannel that puts every filler chunk it receives on the queue.
BackchannelChunkUnchecked(k) ==
  /\ BackchannelRuns(k, "tts")
  /\ bc[k].n < MaxChunks
  /\ bc' = [bc EXCEPT ![k].n = @ + 1]
  /\ queue' = PutChunk(queue, k, "filler")
  /\ hist' = NoteChunk(hist, k, "filler")
  /\ UNCHANGED <<phase, call_configs, event_queues, done_sent,
                 audio_streams, audio_stream_tasks, user_activity_events,
                 task, handler, status, consumer>>
  /\ UNCHANGED auxVars

\* The synthesizer yields a filler chunk: break if the reply has started,
\* else put it on the queue.
BackchannelChunk(k) ==
  /\ BackchannelRuns(k, "tts")
  /\ bc[k].n < MaxChunks
  /\ IF FirstChunkSeen(k)
       THEN /\ bc' = [bc EXCEPT ![k].pc = "done", ![k].n = 0]
            /\ UNCHANGED <<queue, hist>>
       ELSE /\ bc' = [bc EXCEPT ![k].n = @ + 1]
            /\ queue' = PutChunk(queue, k, "filler")
            /\ hist' = NoteChunk(hist, k, "filler")
  /\ UNCHANGED <<phase, call_configs, event_queues, done_sent,
                 audio_streams, audio_stream_tasks, user_activity_events,
                 task, handler, status, consumer>>
  /\ UNCHANGED auxVars

\* The filler's synthesizer stream ends.
BackchannelSynthEnd(k) ==
  /\ BackchannelRuns(k, "tts")
  /\ bc' = [bc EXCEPT ![k].pc = "done", ![k].n = 0]
  /\ UNCHANGED <<phase, call_configs, event_queues, done_sent,
                 audio_streams, audio_stream_tasks, user_activity_events,
                 queue, task, handler, status, consumer, hist>>
  /\ UNCHANGED auxVars

\* A backchannel whose failure aborts the turn with an error event.
BackchannelRaisesEscapes(k) ==
  /\ BackchannelRuns(k, "tts")
  /\ bc' = [bc EXCEPT ![k].pc = "done", ![k].n = 0]
  /\ event_queues' = Enqueue(event_queues, "error")
  /\ task' = [task EXCEPT ![k].error_event = TRUE]
  /\ UNCHANGED <<phase, call_configs, done_sent, audio_streams,
                 audio_stream_tasks, user_activity_events, queue, handler,
                 status, consumer, hist>>
  /\ UNCHANGED auxVars

\* The filler's synthesizer raises: caught and logged inside the task.
BackchannelRaises(k) ==
  /\ BackchannelRuns(k, "tts")
  /\ bc' = [bc EXCEPT ![k].pc = "done", ![k].n = 0]
  /\ UNCHANGED <<phase, call_configs, event_queues, done_sent,
                 audio_streams, audio_stream_tasks, user_activity_events,
                 queue, task, handler, status, consumer, hist>>
  /\ UNCHANGED auxVars

\* CancelledError is raised in the backchannel task and re-raised.
BackchannelCancelled(k) ==
  /\ bc[k].cancel
  /\ bc[k].pc \in {"sleep", "tts"}
  /\ bc' = [bc EXCEPT ![k].pc = "done", ![k].n = 0]
  /\ UNCHANGED <<phase, call_configs, event_queues, done_sent,
                 audio_streams, audio_stream_tasks, user_activity_events,
                 queue, task, handler, status, consumer, hist>>
  /\ UNCHANGED auxVars

(***************************************************************************)
(* Specifications.                                                         *)
(***************************************************************************)

TaskStep(k) ==
  \/ TaskStart(k)
  \/ TaskCancelled(k)
  \/ TaskFinish(k)
  \/ ReplyFragment(k)
  \/ ReplyLockAcquired(k)
  \/ ReplyChunk(k)
  \/ ReplySynthEnd(k)
  \/ ReplyEnd(k)
  \/ LogReturn(k)
  \/ LogRaises(k)
  \/ StreamRaises(k)
  \/ WaitActivity(k)
  \/ WaitTimeout(k)
  \/ ContinuationFragment(k)
  \/ ContinuationChunk(k)
  \/ ContinuationSynthEnd(k)
  \/ ContinuationEnd(k)
  \/ ContinuationLogReturn(k)

BackchannelStep(k) ==
  \/ BackchannelTimer(k)
  \/ BackchannelChunk(k)
  \/ BackchannelSynthEnd(k)
  \/ BackchannelRaises(k)
  \/ BackchannelCancelled(k)

\* Every handler and task, with MaxTurns utterances.
Next ==
  \/ CallLead
  \/ \E k \in 1..MaxTurns : TwilioVoice(k)
  \/ \E k \in Turns : TwilioVoiceResume(k)
  \/ TwilioPartial
  \/ StatusProgress
  \/ StatusTerminal
  \/ StatusResume
  \/ StreamAudioResponse
  \/ \E q \in Turns : IteratorGet(q)
  \/ \E k \in Turns : TaskStep(k)
  \/ \E k \in Turns : BackchannelStep(k)

Spec == Init /\ [][Next]_vars

\* The utterances, the partial transcripts and the tasks, with the history
\* noting the partial transcripts; no status webhook and nobody fetching the
\* audio.
ActivityNext ==
  \/ CallLead
  \/ \E k \in 1..MaxTurns : TwilioVoice(k)
  \/ \E k \in Turns : TwilioVoiceResume(k)
  \/ TwilioPartialNoted
  \/ \E k \in Turns : TaskStep(k)
  \/ \E k \in Turns : BackchannelStep(k)

ActivitySpec == Init /\ [][ActivityNext]_vars

\* The turn task without failures and without its continuation: the task of
\* a first turn stays in wait_for until the next utterance cancels it.
RaceTaskStep(k) ==
  \/ TaskStart(k)
  \/ TaskCancelled(k)
  \/ TaskFinish(k)
  \/ ReplyFragment(k)
  \/ ReplyLockAcquired(k)
  \/ ReplyChunk(k)
  \/ ReplySynthEnd(k)
  \/ ReplyEnd(k)
  \/ LogReturn(k)

\* MaxRaceTurns utterances and the terminal status, with nobody fetching the
\* audio, no partial transcripts and no failing stream: behaviours of the
\* program in which the caller speaks again before the silence window runs
\* out.
RaceNext ==
  \/ CallLead
  \/ \E k \in 1..MaxRaceTurns : TwilioVoice(k)
  \/ \E k \in Turns : TwilioVoiceResume(k)
  \/ StatusTerminal
  \/ StatusResume
  \/ \E k \in Turns : RaceTaskStep(k)
  \/ \E k \in Turns : BackchannelStep(k)

RaceSpec == Init /\ [][RaceNext]_vars

\* The event loop resumes every task that can run; every generator and
\* synthesizer stream eventually yields, ends or raises; wait_for times out;
\* the HTTP client of an audio response keeps reading it.
Fairness ==
  \A k \in 1..MaxTurns :
    /\ WF_vars(TaskStep(k))
    /\ WF_vars(BackchannelStep(k))
    /\ WF_vars(IteratorGet(k))

\* The call while it lasts: every handler and task, and no terminal status.
LiveNext ==
  \/ CallLead
  \/ \E k \in 1..MaxTurns : TwilioVoice(k)
  \/ \E k \in Turns : TwilioVoiceResume(k)
  \/ TwilioPartial
  \/ StatusProgress
  \/ StreamAudioResponse
  \/ \E q \in Turns : IteratorGet(q)
  \/ \E k \in Turns : TaskStep(k)
  \/ \E k \in Turns : BackchannelStep(k)

FairSpec == Init /\ [][LiveNext]_vars /\ Fairness

(***************************************************************************)
(* stream_coldcall_reply (app/voicebot.py): the fragment buffer.           *)
(***************************************************************************)

SENTENCE_DELIMITERS == {".", "?", "!", "\n"}

\* The characters str.strip() removes, of those that occur in the deltas.
Whitespace == {" ", "\n"}

Rep(c, n) == [i \in 1..n |-> c]

\* The content deltas the completion stream can carry: none (a chunk without
\* choices or without content), single delimiters and blanks, words, a run
\* of blanks.
Deltas ==
  { <<>>, <<".">>, <<"\n">>, <<" ">>, <<"a", "?">>, <<"!", " ">>,
    Rep("a", 29), Rep("a", 30), Rep(" ", 30) }

RECURSIVE LStrip(_)
LStrip(s) ==
  IF s # <<>> /\ Head(s) \in Whitespace THEN LStrip(Tail(s)) ELSE s

RECURSIVE RStrip(_)
RStrip(s) ==
  IF s # <<>> /\ s[Len(s)] \in Whitespace
    THEN RStrip(SubSeq(s, 1, Len(s) - 1)) ELSE s

\* str.strip()
Strip(s) == RStrip(LStrip(s))

\* any(d in buffer for d in _SENTENCE_DELIMITERS)
HasDelimiter(buffer) ==
  \E i \in 1..Len(buffer) : buffer[i] \in SENTENCE_DELIMITERS

\* A flush test that releases the buffer at any delimiter.
ShouldFlushAtDelimiter(buffer) ==
  Len(buffer) >= MAX_FLUSH_CHARS \/ HasDelimiter(buffer)

\* The flush test ("and" binds tighter than "or").
ShouldFlush(buffer) ==
  \/ Len(buffer) >= MAX_FLUSH_CHARS
  \/ HasDelimiter(buffer) /\ Len(buffer) >= MIN_FLUSH_CHARS

\* "if flushed: yield flushed"
Yield(out, text) == IF text = <<>> THEN out ELSE Append(out, text)

\* One chunk of the completion stream.  A chunk without content is skipped;
\* otherwise the delta is appended and the buffer flushed when the test says
\* so.
ColdcallDelta(delta) ==
  /\ reply.pc = "stream"
  /\ reply.n < MaxDeltas
  /\ LET buffer == reply.buffer \o delta
     IN reply' =
          IF delta = <<>> THEN [reply EXCEPT !.n = @ + 1]
          ELSE IF ShouldFlush(buffer)
            THEN [reply EXCEPT !.n = @ + 1, !.buffer = <<>>,
                               !.out = Yield(@, Strip(buffer))]
            ELSE [reply EXCEPT !.n = @ + 1, !.buffer = buffer]
  /\ UNCHANGED replyFrame

\* The completion stream ends: the trailing text is flushed.
ColdcallEnd ==
  /\ reply.pc = "stream"
  /\ reply' = [reply EXCEPT !.pc = "done", !.buffer = <<>>,
                            !.out = Yield(@, Strip(reply.buffer))]
  /\ UNCHANGED replyFrame

\* The completion stream raises: RuntimeError leaves the generator and the
\* buffered text is lost.
ColdcallRaises ==
  /\ reply.pc = "stream"
  /\ reply' = [reply EXCEPT !.pc = "raised", !.buffer = <<>>]
  /\ UNCHANGED replyFrame

ReplyStreamNext ==
  \/ \E delta \in Deltas : ColdcallDelta(delta)
  \/ ColdcallEnd
  \/ ColdcallRaises

ReplyStreamSpec == Init /\ [][ReplyStreamNext]_vars

(***************************************************************************)
(* GET /sse?sid= (main.py): the event queue of a call and its subscriber.  *)
(*   gen pc: "idle" no subscriber yet, "loop" at the head of the while     *)
(*   loop, "wait" in asyncio.wait, "done" after break, "crashed" when an   *)
(*   exception left the generator.                                         *)
(*   msg_task pc: "new" created, "waiting" its future is in the queue's    *)
(*   getters, "woken" that future was set, "done" q.get() returned, "read" *)
(*   gen took its result.                                                  *)
(*   hb_task: "new", "sleeping" inside heartbeat(), "ping" it returned the *)
(*   ping, "error" it raised.                                              *)
(***************************************************************************)

\* json.dumps(payload) of the n-th event, and the end marker.
Event(n) == <<"message", n>>
DONE == <<"[DONE]", 0>>

\* Queue.put_nowait: append the item and wake the first waiting getter.
QueuePut(s, item) ==
  IF s.getters = <<>> THEN [s EXCEPT !.q = Append(@, item)]
  ELSE [s EXCEPT !.q = Append(@, item),
                 !.msg_task[Head(s.getters)].pc = "woken",
                 !.getters = Tail(@)]

\* _enqueue(sid, payload) while the queue is registered.
SseEnqueue ==
  /\ ~sse.closed
  /\ sse.put < MaxEvents
  /\ sse' = [QueuePut(sse, Event(sse.put + 1)) EXCEPT !.put = @ + 1]
  /\ UNCHANGED sseFrame

\* _close_stream(sid): put "[DONE]" and drop the registry entry, so nothing
\* is put on this queue afterwards.
SseCloseStream ==
  /\ ~sse.closed
  /\ sse' = [QueuePut(sse, DONE) EXCEPT !.closed = TRUE]
  /\ UNCHANGED sseFrame

\* sse(): the subscriber binds to the queue and its generator starts.
SseSubscribe ==
  /\ sse.pc = "idle"
  /\ sse' = [sse EXCEPT !.pc = "loop"]
  /\ UNCHANGED sseFrame

\* gen(), head of the loop: create msg_task and hb_task, then asyncio.wait.
GenLoop ==
  /\ sse.pc = "loop"
  /\ sse.loops < MaxLoops
  /\ sse' = [sse EXCEPT !.loops = @ + 1, !.pc = "wait",
                        !.msg_task[sse.loops + 1].pc = "new",
                        !.hb_task[sse.loops + 1] = "new"]
  /\ UNCHANGED sseFrame

\* A msg_task runs q.get(): take the head item, or wait on a new future at
\* the end of the getters.
MsgTaskRun(i) ==
  /\ sse.msg_task[i].pc \in {"new", "woken"}
  /\ sse' = IF sse.q # <<>>
              THEN [sse EXCEPT !.msg_task[i] =
                                 [pc |-> "done", result |-> Head(sse.q)],
                               !.q = Tail(@)]
              ELSE [sse EXCEPT !.msg_task[i].pc = "waiting",
                               !.getters = Append(@, i)]
  /\ UNCHANGED sseFrame

\* A task the event loop will run at its next iteration.
SseReady ==
  \E i \in Loops :
    sse.msg_task[i].pc \in {"new", "woken"} \/ sse.hb_task[i] = "new"

\* An hb_task starts hb.__anext__(): it enters heartbeat() and sleeps, or
\* raises RuntimeError because an earlier __anext__ is still running it.
\* The loop starts tasks in the order they were created: msg_task first.
HbTaskRun(i) ==
  /\ sse.hb_task[i] = "new"
  /\ sse.msg_task[i].pc # "new"
  /\ sse' = [sse EXCEPT !.hb_task[i] =
               IF \E j \in Loops : sse.hb_task[j] = "sleeping"
                 THEN "error" ELSE "sleeping"]
  /\ UNCHANGED sseFrame

\* asyncio.sleep(20) returns: heartbeat() yields the ping to that hb_task.
\* The timer is not due while the loop still has a ready task to run.
HbTimer(i) ==
  /\ sse.hb_task[i] = "sleeping"
  /\ ~SseReady
  /\ sse' = [sse EXCEPT !.hb_task[i] = "ping"]
  /\ UNCHANGED sseFrame

\* asyncio.wait returns: the message when msg_task is done ("[DONE]" ends
\* the stream with a done event), otherwise hb_task.result().  Both tasks
\* have run by the time the generator is resumed.
GenResume ==
  /\ sse.pc = "wait"
  /\ LET i == sse.loops
     IN /\ sse.msg_task[i].pc # "new" /\ sse.hb_task[i] # "new"
        /\ sse.msg_task[i].pc = "done" \/ sse.hb_task[i] \in {"ping", "error"}
        /\ sse' =
             IF sse.msg_task[i].pc = "done"
               THEN IF sse.msg_task[i].result = DONE
                      THEN [sse EXCEPT !.msg_task[i].pc = "read",
                                       !.sent = Append(@, <<"done", 0>>),
                                       !.pc = "done"]
                      ELSE [sse EXCEPT !.msg_task[i].pc = "read",
                                       !.sent = Append(@, sse.msg_task[i].result),
                                       !.pc = "loop"]
             ELSE IF sse.hb_task[i] = "ping"
               THEN [sse EXCEPT !.sent = Append(@, <<"ping", 0>>),
                                !.pc = "loop"]
               ELSE [sse EXCEPT !.pc = "crashed"]
  /\ UNCHANGED sseFrame

SseNext ==
  \/ SseEnqueue
  \/ SseCloseStream
  \/ SseSubscribe
  \/ GenLoop
  \/ \E i \in Loops : MsgTaskRun(i)
  \/ \E i \in Loops : HbTaskRun(i)
  \/ \E i \in Loops : HbTimer(i)
  \/ GenResume

SseSpec == Init /\ [][SseNext]_vars

(***************************************************************************)
(* Background logging (main.py): _schedule_background_coroutine and the    *)
(* handlers that use it.  A handler runs on the event loop, so             *)
(* asyncio.create_task succeeds there and the BackgroundTasks fallback is  *)
(* not taken.                                                              *)
(***************************************************************************)

\* asyncio.create_task(runner()) for each of the descriptions in cs.
Schedule(co, cs) ==
  [c \in Coroutines |-> IF c \in cs THEN [co[c] EXCEPT !.pc = "new"] ELSE co[c]]

\* The handler awaits its first blocking call (the thread pool, the form).
RequestStart(r) ==
  /\ bg.req[r].pc = "idle"
  /\ bg' = [bg EXCEPT !.req[r].pc = "work"]
  /\ UNCHANGED bgFrame

\* transcribe: unsupported file or failing pipeline, HTTP 400 or 500; nothing
\* is scheduled.
TranscribeFails(code) ==
  /\ bg.req["transcribe"].pc = "work"
  /\ bg' = [bg EXCEPT !.req["transcribe"] = [pc |-> "done", resp |-> code]]
  /\ UNCHANGED bgFrame

\* transcribe: the conversation log is scheduled and the reply returned.
TranscribeLogs ==
  /\ bg.req["transcribe"].pc = "work"
  /\ bg' = [bg EXCEPT !.req["transcribe"] = [pc |-> "done", resp |-> 200],
                      !.co = Schedule(@, {"conversation log"})]
  /\ UNCHANGED bgFrame

\* call_lead: the provider refuses the call, HTTP 502; nothing is scheduled.
CallLeadFails ==
  /\ bg.req["call"].pc = "work"
  /\ bg' = [bg EXCEPT !.req["call"] = [pc |-> "done", resp |-> 502]]
  /\ UNCHANGED bgFrame

\* call_lead: the lead log is scheduled unless Lead(...) raised, the call log
\* unless Call(...) raised.
CallLeadLogs(lead, call) ==
  /\ bg.req["call"].pc = "work"
  /\ bg' = [bg EXCEPT !.req["call"] = [pc |-> "done", resp |-> 200],
                      !.co = Schedule(@, (IF lead THEN {"lead log"} ELSE {})
                                   \cup (IF call THEN {"call log"} ELSE {}))]
  /\ UNCHANGED bgFrame

\* status_webhook without a CallSid: 200 "missing CallSid", nothing scheduled.
StatusWebhookNoSid ==
  /\ bg.req["status"].pc = "work"
  /\ bg' = [bg EXCEPT !.req["status"] = [pc |-> "done", resp |-> 200]]
  /\ UNCHANGED bgFrame

\* status_webhook: both logs are scheduled; a terminal status then awaits
\* _close_stream, any other returns.
StatusWebhookLogs(terminal) ==
  /\ bg.req["status"].pc = "work"
  /\ bg' = [bg EXCEPT !.req["status"] =
                        IF terminal THEN [pc |-> "close", resp |-> 0]
                        ELSE [pc |-> "done", resp |-> 200],
                      !.co = Schedule(@, {"call event", "status log"})]
  /\ UNCHANGED bgFrame

\* status_webhook: _close_stream returns.
StatusWebhookReturns ==
  /\ bg.req["status"].pc = "close"
  /\ bg' = [bg EXCEPT !.req["status"] = [pc |-> "done", resp |-> 200]]
  /\ UNCHANGED bgFrame

\* runner() starts: it enters coro_func and awaits it.
RunnerStart(c) ==
  /\ bg.co[c].pc = "new"
  /\ bg' = [bg EXCEPT !.co[c].pc = "running", !.co[c].runs = @ + 1]
  /\ UNCHANGED bgFrame

\* coro_func returns.
RunnerReturns(c) ==
  /\ bg.co[c].pc = "running"
  /\ bg' = [bg EXCEPT !.co[c].pc = "done"]
  /\ UNCHANGED bgFrame

\* A runner that lets the exception of coro_func end its task.
RunnerRaisesUnlogged(c) ==
  /\ bg.co[c].pc = "running"
  /\ bg' = [bg EXCEPT !.co[c].pc = "done", !.co[c].raised = TRUE]
  /\ UNCHANGED bgFrame

\* coro_func raises: "except Exception" logs it.
RunnerRaises(c) ==
  /\ bg.co[c].pc = "running"
  /\ bg' = [bg EXCEPT !.co[c].pc = "done", !.co[c].raised = TRUE,
                      !.co[c].logged = TRUE]
  /\ UNCHANGED bgFrame

BgNext ==
  \/ \E r \in Requests : RequestStart(r)
  \/ \E code \in {400, 500} : TranscribeFails(code)
  \/ TranscribeLogs
  \/ CallLeadFails
  \/ \E lead, call \in BOOLEAN : CallLeadLogs(lead, call)
  \/ StatusWebhookNoSid
  \/ \E terminal \in BOOLEAN : StatusWebhookLogs(terminal)
  \/ StatusWebhookReturns
  \/ \E c \in Coroutines : RunnerStart(c)
  \/ \E c \in Coroutines : RunnerReturns(c)
  \/ \E c \in Coroutines : RunnerRaises(c)

BgSpec == Init /\ [][BgNext]_vars

(***************************************************************************)
(* The backend API (backend/app.py, backend/store.py).  Its handlers have  *)
(* no await: each request runs from start to answer in one step.           *)
(***************************************************************************)

\* CallRecord(id=..., to_number=..., message=...): status defaults to
\* "pending", provider_sid to None.
NewRecord == [status |-> "pending", provider_sid |-> 0]

\* CallStore._save: the file holds every record of _calls.
Save(st) == [st EXCEPT !.file = st.calls]

\* CallStore.add_call, with the fresh id Len(_calls) + 1.
AddCall(st, record) == Save([st EXCEPT !.calls = Append(@, record)])

\* call_id in self._calls
Known(st, id) == id \in 1..Len(st.calls)

\* An update_status that assigns provider_sid unconditionally.
UpdateStatusAssignsSid(st, id, label, provider_sid) ==
  Save([st EXCEPT !.calls[id] =
                    [status |-> label, provider_sid |-> provider_sid]])

\* CallStore.update_status on a known id, label being the new status
\* (updated_at is not kept).
UpdateStatus(st, id, label, provider_sid) ==
  Save([st EXCEPT !.calls[id].status = label,
                  !.calls[id].provider_sid =
                     IF provider_sid # 0 THEN provider_sid ELSE @])

\* CallRead.model_validate(record)
CallRead(st, id) ==
  [id |-> id, status |-> st.calls[id].status,
   provider_sid |-> st.calls[id].provider_sid]

\* CallStore.list_calls: newest first.
ListCalls(st) ==
  [i \in 1..Len(st.calls) |-> CallRead(st, Len(st.calls) - i + 1)]

Answer(st, op, id, label, provider_sid, code, body) ==
  [st EXCEPT !.last = [op |-> op, id |-> id, status |-> label,
                       provider_sid |-> provider_sid, code |-> code,
                       body |-> body]]

\* TwilioService.place_call returns the provider SID (the call's own number
\* here) or raises RuntimeError.
PlaceCall == {"sid", "RuntimeError"}

\* A create_call that answers 500 without recording the failure.
RecordPlacementForgetsError(st, id, outcome) ==
  IF ~st.enabled
    THEN LET u == UpdateStatus(st, id, "recorded", 0)
         IN Answer(u, "create", id, "", 0, 201, <<CallRead(u, id)>>)
  ELSE IF outcome = "RuntimeError"
    THEN Answer(st, "create", id, "", 0, 500, <<>>)
  ELSE LET u == UpdateStatus(st, id, "queued", id)
       IN Answer(u, "create", id, "", 0, 201, <<CallRead(u, id)>>)

\* create_call after add_call: the outcome is written to the record.
RecordPlacement(st, id, outcome) ==
  IF ~st.enabled
    THEN LET u == UpdateStatus(st, id, "recorded", 0)
         IN Answer(u, "create", id, "", 0, 201, <<CallRead(u, id)>>)
  ELSE IF outcome = "RuntimeError"
    THEN Answer(UpdateStatus(st, id, "error", 0), "create", id, "", 0, 500,
                <<>>)
  ELSE LET u == UpdateStatus(st, id, "queued", id)
       IN Answer(u, "create", id, "", 0, 201, <<CallRead(u, id)>>)

\* POST /calls
CreateCall(outcome) ==
  /\ Len(store.calls) < MaxCalls
  /\ store' = RecordPlacement(AddCall(store, NewRecord),
                              Len(store.calls) + 1, outcome)
  /\ UNCHANGED storeFrame

\* POST /calls/{call_id}/status: KeyError becomes HTTP 404.
UpdateStatusRequest(id, label, provider_sid) ==
  /\ store' =
       IF Known(store, id)
         THEN LET u == UpdateStatus(store, id, label, provider_sid)
              IN Answer(u, "update", id, label, provider_sid, 200,
                        <<CallRead(u, id)>>)
         ELSE Answer(store, "update", id, label, provider_sid, 404, <<>>)
  /\ UNCHANGED storeFrame

\* GET /calls
ListCallsRequest ==
  /\ store' = Answer(store, "list", 0, "", 0, 200, ListCalls(store))
  /\ UNCHANGED storeFrame

StoreNext ==
  \/ \E outcome \in PlaceCall : CreateCall(outcome)
  \/ \E id \in 1..MaxCalls, label \in {"completed", "pending"},
        provider_sid \in {0, 9} : UpdateStatusRequest(id, label, provider_sid)
  \/ ListCallsRequest

\* The application is created with or without the Twilio settings.
StoreInit ==
  /\ MainInit
  /\ reply = NewReply
  /\ sse = NewSse
  /\ bg = NewBg
  /\ store \in {NewStore(enabled) : enabled \in BOOLEAN}
  /\ ws = NewWs(FALSE)
  /\ RestInit

StoreSpec == StoreInit /\ [][StoreNext]_vars

(***************************************************************************)
(* /voice/ws (agent/ws_voice_agent.py): one session whose client stays     *)
(* connected.  conn.send_json sends at once: the socket is connected and   *)
(* the lock free whenever it is called.                                    *)
(*   consumer pc: "recv" in ws.receive_text, "turn" in _bot_turn, "tts" in *)
(*   _maybe_tts (only with ENABLE_TTS), "cancelled".                       *)
(***************************************************************************)

\* conn.send_json({"type": type}) answering the n-th frame (0: no frame).
SendJson(w, type, n) == [w EXCEPT !.out = Append(@, <<type, n>>)]

\* The client sends its next frame: a user_text with text, a user_text
\* without, or a ping.
ClientSend(kind) ==
  /\ ws.pc # "closed"
  /\ ws.frames < MaxFrames
  /\ ws' = [ws EXCEPT !.frames = @ + 1,
                      !.inbox = Append(@, [n |-> ws.frames + 1, kind |-> kind])]
  /\ UNCHANGED wsFrame

\* The consumer can take a step: no CancelledError is pending.
ConsumerRuns(pc) == ws.consumer.pc = pc /\ ~ws.consumer.cancel

\* receive_text returns a frame: pong for a ping, error for an empty text,
\* otherwise the bot turn starts.
ConsumerReceive ==
  /\ ConsumerRuns("recv")
  /\ ws.inbox # <<>>
  /\ LET msg == Head(ws.inbox)
         w == [ws EXCEPT !.inbox = Tail(@)]
     IN ws' = IF msg.kind = "ping" THEN SendJson(w, "pong", msg.n)
              ELSE IF msg.kind = "empty" THEN SendJson(w, "error", msg.n)
              ELSE [w EXCEPT !.got = Append(@, msg.n),
                             !.consumer.pc = "turn",
                             !.consumer.cur = msg.n]
  /\ UNCHANGED wsFrame

\* _bot_turn returns: bot_text, then the speech synthesis when it is
\* enabled, otherwise done.
BotTurnReturns ==
  /\ ConsumerRuns("turn")
  /\ LET w == SendJson(ws, "bot_text", ws.consumer.cur)
     IN ws' = IF ws.enable_tts
                THEN [w EXCEPT !.consumer.pc = "tts"]
                ELSE [SendJson(w, "done", ws.consumer.cur)
                        EXCEPT !.consumer.pc = "recv", !.consumer.cur = 0]
  /\ UNCHANGED wsFrame

\* _bot_turn raises: one error frame.
BotTurnRaises ==
  /\ ConsumerRuns("turn")
  /\ ws' = [SendJson(ws, "error", ws.consumer.cur)
              EXCEPT !.consumer.pc = "recv", !.consumer.cur = 0]
  /\ UNCHANGED wsFrame

\* _maybe_tts returns (bot_audio when it returned a path), then done.
TtsReturns(path) ==
  /\ ConsumerRuns("tts")
  /\ LET w == IF path THEN SendJson(ws, "bot_audio", ws.consumer.cur) ELSE ws
     IN ws' = [SendJson(w, "done", ws.consumer.cur)
                 EXCEPT !.consumer.pc = "recv", !.consumer.cur = 0]
  /\ UNCHANGED wsFrame

\* _maybe_tts raises: logged, then done.
TtsRaises ==
  /\ ConsumerRuns("tts")
  /\ ws' = [SendJson(ws, "done", ws.consumer.cur)
              EXCEPT !.consumer.pc = "recv", !.consumer.cur = 0]
  /\ UNCHANGED wsFrame

\* asyncio.wait_for(consumer_task, timeout=20.0) times out: wait_for cancels
\* the task it was given and waits for it to finish.
KeepAliveTimeout ==
  /\ ws.pc = "wait"
  /\ ws.consumer.pc # "cancelled"
  /\ ws' = [ws EXCEPT !.pc = "timeout", !.consumer.cancel = TRUE]
  /\ UNCHANGED wsFrame

\* CancelledError is raised in the consumer at its await; "except Exception"
\* does not catch it.
ConsumerCancelled ==
  /\ ws.consumer.cancel
  /\ ws.consumer.pc # "cancelled"
  /\ ws' = [ws EXCEPT !.consumer.pc = "cancelled"]
  /\ UNCHANGED wsFrame

\* wait_for raises TimeoutError: the ping is sent; consumer_task.done() now
\* ends the keep-alive loop, and the finally block closes the connection.
KeepAlivePing ==
  /\ ws.pc = "timeout"
  /\ ws.consumer.pc = "cancelled"
  /\ ws' = [SendJson(ws, "ping", 0) EXCEPT !.pc = "closed"]
  /\ UNCHANGED wsFrame

WsNext ==
  \/ \E kind \in {"user_text", "empty", "ping"} : ClientSend(kind)
  \/ ConsumerReceive
  \/ BotTurnReturns
  \/ BotTurnRaises
  \/ \E path \in BOOLEAN : TtsReturns(path)
  \/ TtsRaises
  \/ KeepAliveTimeout
  \/ ConsumerCancelled
  \/ KeepAlivePing

\* The service runs with or without WS_TTS.
WsInit ==
  /\ MainInit
  /\ reply = NewReply
  /\ sse = NewSse
  /\ bg = NewBg
  /\ store = NewStore(FALSE)
  /\ ws \in {NewWs(enable_tts) : enable_tts \in BOOLEAN}
  /\ RestInit

WsSpec == WsInit /\ [][WsNext]_vars

(***************************************************************************)
(* POST /twilio-voice (twilio_utils/webhook_handler.py).                   *)
(*   pc: "idle" no request yet, "form" awaiting request.form(), "lead"     *)
(*   awaiting coldcall_lead in the thread pool, "speak" awaiting           *)
(*   speak_text, "done" the response is returned.                          *)
(***************************************************************************)

\* TwiML is the sequence of the verbs of the <Response>.
Say(text) == [verb |-> "Say", text |-> text]
Play(url) == [verb |-> "Play", text |-> url]
Gather == [verb |-> "Gather", text |-> "..."]

\* _twiml_say_gather
TwimlSayGather(prompt_text) == <<Say(prompt_text), Gather>>

\* Response(content=..., media_type="application/xml"): status_code is 200.
XmlResponse(content) ==
  [status_code |-> 200, content |-> content, media_type |-> "application/xml"]

\* What the framework answers when an exception leaves the handler.
ErrorResponse(code) ==
  [status_code |-> code, content |-> <<>>, media_type |-> "application/json"]

\* _verify_twilio_signature: 0 when it returns, else the status of the
\* HTTPException it raises.
VerifyTwilioSignature(h) ==
  IF ~h.ENABLE_TWILIO_SIG_CHECK THEN 0
  ELSE IF ~h.TWILIO_AUTH_TOKEN THEN 500
  ELSE IF ~h.signed THEN 403
  ELSE 0

\* An "except HTTPException" that lets the exception through.
OnHTTPExceptionRaises(code) == ErrorResponse(code)

\* "except HTTPException": a TwiML apology.
OnHTTPException(code) ==
  XmlResponse(TwimlSayGather("Sorry, I can't process that request."))

\* "except Exception" of step 1 and of step 3.
OnFormException ==
  XmlResponse(TwimlSayGather("Sorry, I can't process that request."))

OnException ==
  XmlResponse(TwimlSayGather("Sorry, I hit a glitch. Can you say that one more time?"))

Greeting == XmlResponse(TwimlSayGather("Hi, this is Ava from TriFiVend."))

PlayGather == XmlResponse(<<Play("/twilio/audio/response.mp3"), Gather>>)

Respond(h, failed, response) ==
  [h EXCEPT !.pc = "done", !.failed = failed, !.response = response]

\* Twilio posts to /twilio-voice; the handler awaits request.form().
HookRequest(SpeechResult, signed) ==
  /\ hook.pc = "idle"
  /\ hook' = [hook EXCEPT !.pc = "form", !.SpeechResult = SpeechResult,
                          !.signed = signed]
  /\ UNCHANGED hookFrame

\* request.form() raises.
FormRaises ==
  /\ hook.pc = "form"
  /\ hook' = Respond(hook, "form", OnFormException)
  /\ UNCHANGED hookFrame

\* request.form() returns: the signature is verified, a request without
\* speech is greeted, and otherwise coldcall_lead is run in the thread pool
\* unless its import had failed.
FormReturns ==
  /\ hook.pc = "form"
  /\ LET code == VerifyTwilioSignature(hook)
     IN hook' =
          IF code # 0 THEN Respond(hook, "signature", OnHTTPException(code))
          ELSE IF hook.SpeechResult \in {"None", ""} THEN Respond(hook, "", Greeting)
          ELSE IF ~hook.coldcall_lead THEN Respond(hook, "reply", OnException)
          ELSE [hook EXCEPT !.pc = "lead"]
  /\ UNCHANGED hookFrame

\* coldcall_lead returns the reply; speak_text is run in the thread pool
\* unless its import had failed.
LeadReturns ==
  /\ hook.pc = "lead"
  /\ hook' =
       IF ~hook.speak_text
         THEN Respond([hook EXCEPT !.reply_text = "AI reply"], "speech",
                      OnException)
         ELSE [hook EXCEPT !.pc = "speak", !.reply_text = "AI reply"]
  /\ UNCHANGED hookFrame

LeadRaises ==
  /\ hook.pc = "lead"
  /\ hook' = Respond(hook, "reply", OnException)
  /\ UNCHANGED hookFrame

\* speak_text returns: <Play> of the synthesized file, then <Gather>.
SpeakReturns ==
  /\ hook.pc = "speak"
  /\ hook' = Respond([hook EXCEPT !.spoken = hook.reply_text], "", PlayGather)
  /\ UNCHANGED hookFrame

SpeakRaises ==
  /\ hook.pc = "speak"
  /\ hook' = Respond([hook EXCEPT !.spoken = hook.reply_text], "speech",
                     OnException)
  /\ UNCHANGED hookFrame

HookNext ==
  \/ \E SpeechResult \in {"None", "", "hi"}, signed \in BOOLEAN :
       HookRequest(SpeechResult, signed)
  \/ FormRaises
  \/ FormReturns
  \/ LeadReturns
  \/ LeadRaises
  \/ SpeakReturns
  \/ SpeakRaises

\* The router is loaded with any of its settings.
HookInit ==
  /\ MainInit
  /\ reply = NewReply
  /\ sse = NewSse
  /\ bg = NewBg
  /\ store = NewStore(FALSE)
  /\ ws = NewWs(FALSE)
  /\ hook \in {NewHook(sig_check, token, lead_ok, speak_ok) :
                 sig_check \in BOOLEAN, token \in BOOLEAN,
                 lead_ok \in BOOLEAN, speak_ok \in BOOLEAN}
  /\ coldcall = NewColdcall
  /\ chunker = NewChunker
  /\ tts = NewTts

HookSpec == HookInit /\ [][HookNext]_vars

(***************************************************************************)
(* stream_coldcall_reply and coldcall_lead (app/voicebot.py) from the      *)
(* call on.                                                                *)
(*   pc: "idle" not called yet, "create" at "await                         *)
(*   async_client.chat.completions.create", "stream" in the "async for",   *)
(*   "done" returned, "raised" a RuntimeError left the function.           *)
(***************************************************************************)

FIRST_TURN_MAX_TOKENS == 90

\* missing_openai_error (app/openai_compat.py)
MissingOpenaiError(c) ==
  IF ~c.sdk THEN "OpenAI SDK import failed"
  ELSE IF ~c.key THEN "OPENAI_API_KEY is not set."
  ELSE "Unknown OpenAI issue."

\* create_async_openai_client returns a client only with the SDK and a key.
AsyncClients ==
  { cfg \in [sdk : BOOLEAN, key : BOOLEAN, client : BOOLEAN] :
      cfg.client => cfg.sdk /\ cfg.key }

RunningLoopError ==
  "coldcall_lead() cannot be called from a running event loop"

\* "except Exception as e: raise RuntimeError(f'... failed: {e}') from e" of
\* stream_coldcall_reply, and around it that of coldcall_lead.
Failed(entry, e) ==
  IF entry = "coldcall_lead"
    THEN <<"AI response failed: ", "AI streaming response failed: ", e>>
    ELSE <<"AI streaming response failed: ", e>>

\* The function is called (coldcall_lead: possibly from a running event
\* loop, which it refuses).
ColdcallCall(entry, is_first_turn, in_loop) ==
  /\ coldcall.pc = "idle"
  /\ in_loop => entry = "coldcall_lead"
  /\ coldcall' =
       IF in_loop
         THEN [coldcall EXCEPT !.pc = "raised", !.entry = entry,
                               !.error = <<RunningLoopError>>]
         ELSE [coldcall EXCEPT
                 !.pc = "create", !.entry = entry,
                 !.max_tokens =
                   IF is_first_turn THEN FIRST_TURN_MAX_TOKENS ELSE 0]
  /\ UNCHANGED coldcallFrame

\* async_client is None: evaluating async_client.chat raises AttributeError.
ClientMissing ==
  /\ coldcall.pc = "create"
  /\ ~coldcall.async_client
  /\ coldcall' =
       [coldcall EXCEPT
          !.pc = "raised",
          !.error = Failed(coldcall.entry,
                           "'NoneType' object has no attribute 'chat'")]
  /\ UNCHANGED coldcallFrame

CreateReturns ==
  /\ coldcall.pc = "create"
  /\ coldcall.async_client
  /\ coldcall' = [coldcall EXCEPT !.pc = "stream"]
  /\ UNCHANGED coldcallFrame

CreateRaises ==
  /\ coldcall.pc = "create"
  /\ coldcall.async_client
  /\ coldcall' = [coldcall EXCEPT !.pc = "raised",
                                  !.error = Failed(coldcall.entry, "APIError")]
  /\ UNCHANGED coldcallFrame

\* A fragment is yielded.
CompletionFragment ==
  /\ coldcall.pc = "stream"
  /\ coldcall.parts < MaxParts
  /\ coldcall' = [coldcall EXCEPT !.parts = @ + 1]
  /\ UNCHANGED coldcallFrame

CompletionEnds ==
  /\ coldcall.pc = "stream"
  /\ coldcall' = [coldcall EXCEPT !.pc = "done"]
  /\ UNCHANGED coldcallFrame

CompletionRaises ==
  /\ coldcall.pc = "stream"
  /\ coldcall' = [coldcall EXCEPT !.pc = "raised",
                                  !.error = Failed(coldcall.entry, "APIError")]
  /\ UNCHANGED coldcallFrame

ColdcallNext ==
  \/ \E entry \in {"stream_coldcall_reply", "coldcall_lead"},
        is_first_turn \in BOOLEAN, in_loop \in BOOLEAN :
       ColdcallCall(entry, is_first_turn, in_loop)
  \/ ClientMissing
  \/ CreateReturns
  \/ CreateRaises
  \/ CompletionFragment
  \/ CompletionEnds
  \/ CompletionRaises

\* The module is imported with or without the SDK and the key; async_client
\* may also have been set to None afterwards.
ColdcallInit ==
  /\ MainInit
  /\ reply = NewReply
  /\ sse = NewSse
  /\ bg = NewBg
  /\ store = NewStore(FALSE)
  /\ ws = NewWs(FALSE)
  /\ hook = NewHook(FALSE, FALSE, TRUE, TRUE)
  /\ coldcall \in {NewColdcallWith(cfg.sdk, cfg.key, cfg.client) :
                     cfg \in AsyncClients}
  /\ chunker = NewChunker
  /\ tts = NewTts

ColdcallSpec == ColdcallInit /\ [][ColdcallNext]_vars

(***************************************************************************)
(* split_text_for_tts (tts_chunker.py).                                    *)
(***************************************************************************)

\* The characters of the texts tried: a letter, a blank, a sentence end.
Alphabet == {"a", " ", "."}

RECURSIVE TextsOfLen(_)
TextsOfLen(n) ==
  IF n = 0 THEN {<<>>}
  ELSE {Append(t, c) : t \in TextsOfLen(n - 1), c \in Alphabet}

Texts == UNION {TextsOfLen(n) : n \in 0..MaxText}

\* _SENT_SPLIT.split(text), _SENT_SPLIT being (?<=[.!?])\s+ : text is cut at
\* every run of whitespace that follows a ".", "!" or "?"; cur is the piece
\* being read.
RECURSIVE SentSplit(_, _, _)
SentSplit(rest, cur, acc) ==
  IF rest = <<>> THEN Append(acc, cur)
  ELSE IF /\ Head(rest) \in Whitespace
          /\ cur # <<>>
          /\ cur[Len(cur)] \in {".", "!", "?"}
    THEN SentSplit(LStrip(rest), <<>>, Append(acc, cur))
    ELSE SentSplit(Tail(rest), Append(cur, Head(rest)), acc)

\* [s.strip() for s in ... if s.strip()]
RECURSIVE StripAll(_)
StripAll(ss) ==
  IF ss = <<>> THEN <<>>
  ELSE IF Strip(Head(ss)) = <<>> THEN StripAll(Tail(ss))
  ELSE <<Strip(Head(ss))>> \o StripAll(Tail(ss))

Sents(text) == StripAll(SentSplit(Strip(text), <<>>, <<>>))

\* flush()
Flush(out, buf) == IF buf # <<>> THEN Append(out, Strip(buf)) ELSE out

\* "while start < len(s): out.append(s[start:start+max_chars].strip())"
RECURSIVE HardWrap(_, _, _)
HardWrap(s, start, max_chars) ==
  IF start >= Len(s) THEN <<>>
  ELSE <<Strip(SubSeq(s, start + 1,
                      IF start + max_chars < Len(s)
                        THEN start + max_chars ELSE Len(s)))>>
         \o HardWrap(s, start + max_chars, max_chars)

\* "for s in sents: ..." and the final flush()
RECURSIVE MergeSents(_, _, _, _)
MergeSents(sents, out, buf, max_chars) ==
  IF sents = <<>> THEN Flush(out, buf)
  ELSE LET s == Head(sents)
       IN IF Len(s) > max_chars
            THEN MergeSents(Tail(sents),
                            Flush(out, buf) \o HardWrap(s, 0, max_chars),
                            <<>>, max_chars)
          ELSE IF buf = <<>>
            THEN MergeSents(Tail(sents), out, s, max_chars)
          ELSE IF Len(buf) + 1 + Len(s) <= max_chars
            THEN MergeSents(Tail(sents), out, buf \o <<" ">> \o s, max_chars)
          ELSE MergeSents(Tail(sents), Flush(out, buf), s, max_chars)

SplitTextForTts(text, max_chars) ==
  IF Strip(text) = <<>> THEN <<>>
  ELSE MergeSents(Sents(text), <<>>, <<>>, max_chars)

\* The call returns.
ChunkerReturns ==
  /\ chunker.pc = "call"
  /\ chunker' = [chunker EXCEPT
                   !.pc = "returned",
                   !.out = SplitTextForTts(chunker.text, chunker.max_chars)]
  /\ UNCHANGED chunkerFrame

ChunkerNext == ChunkerReturns

\* Any text, any max_chars >= 1.
ChunkerInit ==
  /\ MainInit
  /\ reply = NewReply
  /\ sse = NewSse
  /\ bg = NewBg
  /\ store = NewStore(FALSE)
  /\ ws = NewWs(FALSE)
  /\ hook = NewHook(FALSE, FALSE, TRUE, TRUE)
  /\ coldcall = NewColdcall
  /\ chunker \in {NewChunkerWith(text, max_chars) :
                    text \in Texts, max_chars \in 1..MaxChars}
  /\ tts = NewTts

ChunkerSpec == ChunkerInit /\ [][ChunkerNext]_vars

(***************************************************************************)
(* elevenlabs_tts_to_bytes (tts_chunker.py).                               *)
(*   pc: "call" called, "post" in requests.post, "sleep" in time.sleep,    *)
(*   "returned" the audio is returned, "raised" RuntimeError left the      *)
(*   function.                                                             *)
(***************************************************************************)

\* Defaults of the module's settings; RETRY_BACKOFF is 0.8 s, in tenths of a
\* second.
HTTP_RETRIES == 3
RETRY_BACKOFF == 8

\* What requests.post can return: the status, whether there is content,
\* whether the Content-Type starts with "audio/".
Responses ==
  [status_code : {200, 500}, content : BOOLEAN, audio : BOOLEAN]

\* The entry of posts for a requests.post that raised (connection error,
\* timeout): no response.
PostRaised == [status_code |-> 0, content |-> FALSE, audio |-> FALSE]

\* "resp.status_code == 200 and resp.content and ...startswith('audio/')"
IsAudio(resp) == resp.status_code = 200 /\ resp.content /\ resp.audio

\* An except clause that backs off after every failed attempt, the last one
\* included.
OnFailureAlwaysSleeps(t, outcome) ==
  [t EXCEPT !.posts = Append(@, outcome),
            !.sleeps = Append(@, RETRY_BACKOFF * t.attempt),
            !.pc = "sleep"]

\* "except Exception as e": back off before the next attempt, or leave the
\* loop after the last one and raise.
OnFailure(t, outcome) ==
  IF t.attempt < HTTP_RETRIES
    THEN [t EXCEPT !.posts = Append(@, outcome),
                   !.sleeps = Append(@, RETRY_BACKOFF * t.attempt),
                   !.pc = "sleep"]
    ELSE [t EXCEPT !.posts = Append(@, outcome), !.pc = "raised",
                   !.result = "RuntimeError"]

\* Entry: RuntimeError without a key, else the first attempt.
ElevenStart ==
  /\ tts.pc = "call"
  /\ tts' = IF ~tts.ELEVEN_API_KEY
              THEN [tts EXCEPT !.pc = "raised", !.result = "RuntimeError"]
              ELSE [tts EXCEPT !.pc = "post", !.attempt = 1]
  /\ UNCHANGED ttsFrame

\* requests.post returns: the audio is returned, or the response is turned
\* into a RuntimeError that the except clause handles.
PostReturns(resp) ==
  /\ tts.pc = "post"
  /\ tts' = IF IsAudio(resp)
              THEN [tts EXCEPT !.posts = Append(@, resp),
                               !.pc = "returned", !.result = "audio"]
              ELSE OnFailure(tts, resp)
  /\ UNCHANGED ttsFrame

\* requests.post raises (connection error, timeout).
PostRaises ==
  /\ tts.pc = "post"
  /\ tts' = OnFailure(tts, PostRaised)
  /\ UNCHANGED ttsFrame

\* time.sleep returns: the next attempt, or the end of the loop.
SleepReturns ==
  /\ tts.pc = "sleep"
  /\ tts' = IF tts.attempt < HTTP_RETRIES
              THEN [tts EXCEPT !.pc = "post", !.attempt = @ + 1]
              ELSE [tts EXCEPT !.pc = "raised", !.result = "RuntimeError"]
  /\ UNCHANGED ttsFrame

ElevenNext ==
  \/ ElevenStart
  \/ \E resp \in Responses : PostReturns(resp)
  \/ PostRaises
  \/ SleepReturns

\* The module is loaded with or without ELEVENLABS_API_KEY.
ElevenInit ==
  /\ MainInit
  /\ reply = NewReply
  /\ sse = NewSse
  /\ bg = NewBg
  /\ store = NewStore(FALSE)
  /\ ws = NewWs(FALSE)
  /\ hook = NewHook(FALSE, FALSE, TRUE, TRUE)
  /\ coldcall = NewColdcall
  /\ chunker = NewChunker
  /\ tts \in {NewTtsWith(api_key) : api_key \in BOOLEAN}

\* requests.post has a timeout and time.sleep returns: every step of the
\* call that can be taken is taken.
ElevenSpec == ElevenInit /\ [][ElevenNext]_vars /\ WF_vars(ElevenNext)

(***************************************************************************)
(* Properties.                                                             *)
(***************************************************************************)

\* Turn k has put audio (filler, reply or continuation) on its queue.
Pushed(k) ==
  hist.turn[k].filler + hist.turn[k].reply + hist.turn[k].cont > 0

\* The turn task of k has started and has not finished.
Running(k) == task[k].pc \notin {"none", "new", "done"}

\* C1: at any time at most one reply-streaming task of the call is
\* unfinished (the registry holds one queue per call id by construction).
AtMostOneUnfinishedTask == Cardinality({k \in Turns : Unfinished(k)}) <= 1

\* C2: when a turn has put audio on its queue, the task of every turn created
\* before it, and that task's backchannel task, have terminated.
PreviousTurnTerminatedBeforeAudio ==
  \A j, k \in Turns :
    (0 < task[j].seq /\ task[j].seq < task[k].seq /\ Pushed(k))
      => (task[j].pc = "done" /\ bc[j].pc \in {"none", "done"})

\* C3: the chunks delivered to consumers never go back to an earlier turn:
\* the turn of the last delivered chunk is the latest turn delivered so far.
DeliveryNeverGoesBack == hist.last = hist.max

\* C4: no audio chunk of a turn is put on a queue after the cancellation of
\* the turn's task has been requested.
NoAudioAfterCancelRequest == \A k \in Turns : ~hist.turn[k].late

\* C5: a turn whose task was cancelled before its reply generator stream
\* ended (or before it started) has emitted no reply event and has made no
\* log_conversation call.
CancelledReplyNotRecorded ==
  \A k \in Turns :
    task[k].cat \in {"new", "reply"}
      => (~task[k].reply_event /\ ~task[k].logged)

\* A turn was cancelled while its reply was being synthesized, after reply
\* audio had been put on the queue, and has finished.
CancelledReplyWitness ==
  \E k \in Turns :
    task[k].cat = "reply" /\ task[k].pc = "done" /\ hist.turn[k].reply > 0

\* C6: every turn task that has started eventually puts None on its queue in
\* its finally block, and every consumer reading a queue eventually gets a
\* None and ends its response.
TurnAlwaysEndsStream ==
  /\ \A k \in 1..MaxTurns :
       (task[k].pc \notin {"none", "new", "done"}) ~> hist.turn[k].fin
  /\ \A q \in 1..MaxTurns : (consumer[q] = "read") ~> (consumer[q] = "done")

\* A consumer has been released from the queue of a turn that was cancelled
\* in the middle of its reply.
ReleasedConsumerWitness ==
  \E k \in Turns :
    consumer[k] = "done" /\ task[k].cat = "reply" /\ hist.turn[k].fin

\* C7: a turn one of whose streams raised has emitted the error event and is
\* in or past its finally block, never cancelled by the failure; once it has
\* finished it has put None on its queue.
FailedTurnStillEndsStream ==
  \A k \in Turns :
    task[k].cat = "raised"
      => /\ task[k].error_event
         /\ task[k].pc \in {"fin", "done"}
         /\ task[k].pc = "done" => hist.turn[k].fin

\* A turn whose synthesizer raised after reply audio was put has finished.
FailedTurnWitness ==
  \E k \in Turns :
    task[k].cat = "raised" /\ task[k].pc = "done" /\ hist.turn[k].reply > 0

\* C8: the step that handles the terminal status requests the cancellation of
\* every turn task that is running at that moment.
TerminalStatusCancelsRunningTurn ==
  [][(status.pc = "idle" /\ status'.pc # "idle")
       => \A k \in Turns : Running(k) /\ task[k].pc # "fin" => task'[k].cancel]_vars

\* C9: once status_webhook has handled the terminal status and returned, no
\* registry holds an entry for the call.
NoEntryOutlivesCall ==
  status.pc = "done"
    => /\ call_configs = -1
       /\ ~event_queues.has
       /\ audio_streams = 0
       /\ audio_stream_tasks = 0
       /\ user_activity_events = 0

\* C10: a turn whose first reply fragment came while the backchannel task was
\* still in its delay never puts a filler chunk on its queue.
EarlyReplyMeansNoFiller ==
  \A k \in Turns : task[k].early => hist.turn[k].filler = 0

\* A turn got its first fragment during the delay, put reply audio, and both
\* its tasks have finished.
EarlyReplyWitness ==
  \E k \in Turns :
    /\ task[k].early
    /\ task[k].pc = "done"
    /\ bc[k].pc = "done"
    /\ hist.turn[k].reply > 0

\* C11: a turn whose first reply fragment came after the backchannel delay
\* had elapsed, and that has put reply audio on its queue, has put at least
\* one filler chunk there (filler is only ever put before the first
\* fragment, so it precedes the reply audio).
LateReplyHasFiller ==
  \A k \in Turns :
    (hist.turn[k].reply > 0 /\ ~task[k].early) => hist.turn[k].filler > 0

\* No filler chunk follows a reply chunk in a relay queue.
FillerBeforeReply ==
  \A k \in Turns : \A i, j \in 1..Len(queue[k]) :
    (i < j /\ queue[k][i] = "reply") => queue[k][j] # "filler"

\* C12: no step puts a filler chunk on the queue of a turn whose
\* first_chunk_event is set, and no queue holds a filler chunk behind a reply
\* chunk.
NoFillerAfterFirstFragment ==
  /\ []FillerBeforeReply
  /\ [][\A k \in Turns :
          FirstChunkSeen(k) => hist'.turn[k].filler = hist.turn[k].filler]_vars

\* The backchannel task was streaming the filler when the first fragment came;
\* it has stopped, and filler and reply audio are both on the queue.
TruncatedFillerWitness ==
  \E k \in Turns :
    /\ FirstChunkSeen(k)
    /\ bc[k].pc = "done"
    /\ Len(queue[k]) >= 2
    /\ queue[k][1] = "filler"
    /\ queue[k][2] = "reply"
\* C13: whichever way the filler's synthesis stops without a chunk being put
\* (it raises, it ends, the loop breaks), that step leaves the backchannel
\* task done, so write_lock is free, and changes neither the turn task nor
\* the event queue: no error event, and the reply loop goes on.
BackchannelFailureContained ==
  [][\A k \in Turns :
       (BackchannelRuns(k, "tts") /\ bc'[k].pc # "tts" /\ hist' = hist)
         => /\ bc'[k].pc = "done"
            /\ task' = task
            /\ event_queues' = event_queues]_vars

\* The filler's synthesis was started and stopped without any filler chunk,
\* and the turn has put reply audio and finished its reply normally.
ReplyAfterFailedFillerWitness ==
  \E k \in Turns :
    /\ ~task[k].early
    /\ bc[k].pc = "done"
    /\ hist.turn[k].filler = 0
    /\ hist.turn[k].reply > 0
    /\ task[k].reply_event
\* C14: the silence window is entered once, after the reply was recorded; when
\* it runs out with no activity signalled the turn starts the follow-up
\* stream; the follow-up is started only there, on a first turn with a reply,
\* and its continuation event is emitted at most once.
OneFollowUpAfterSilence ==
  [][\A k \in Turns :
       /\ (task'[k].pc = "wait" /\ task[k].pc # "wait") => task[k].pc = "log"
       /\ (Runs(k, "wait") /\ task[k].ev = "clear" /\ task'[k].pc # "wait")
            => task'[k].pc = "cgen"
       /\ (task'[k].pc = "cgen" /\ task[k].pc \notin {"cgen", "ctts"})
            => /\ task[k].pc = "wait"
               /\ task[k].ev = "clear"
               /\ IsFirstTurn(task[k])
               /\ task[k].reply_event
               /\ hist.turn[k].cont = 0
       /\ (task'[k].pc = "clog" /\ task[k].pc # "clog")
            => ~task[k].cont_event]_vars

\* A first turn has finished normally after emitting its continuation event
\* and putting follow-up audio on its queue.
FollowUpWitness ==
  \E k \in Turns :
    /\ task[k].pc = "done"
    /\ task[k].cat = ""
    /\ task[k].cont_event
    /\ hist.turn[k].cont > 0
\* C15: a turn created after another turn of the call has started never
\* waits for the silence window, never streams a follow-up and puts no
\* follow-up chunk on its queue.
NoContinuationAfterFirstTurn ==
  \A k \in Turns :
    (\E j \in Turns : task[j].turn > 0 /\ task[j].seq < task[k].seq)
      => /\ task[k].pc \notin {"wait", "cgen", "ctts", "clog"}
         /\ hist.turn[k].cont = 0
         /\ ~task[k].cont_event

\* C20: no two turns of the call observe the same value of the turn counter
\* (so at most one observes turn == 1).
TurnCounterNeverRepeats ==
  \A j, k \in Turns :
    (j # k /\ task[j].turn > 0 /\ task[k].turn > 0)
      => task[j].turn # task[k].turn
\* C16: a turn whose Event is set while it waits for the silence window
\* leaves the wait for its finally block, never for the follow-up; a turn
\* that ended this way has put no follow-up chunk and emitted no continuation
\* event.
ActivityMeansNoFollowUp ==
  /\ [](\A k \in Turns :
          task[k].cat = "activity"
            => /\ task[k].pc \in {"fin", "done"}
               /\ hist.turn[k].cont = 0
               /\ ~task[k].cont_event)
  /\ [][\A k \in Turns :
          (task[k].pc = "wait" /\ task[k].ev = "set" /\ task'[k].pc # "wait")
            => task'[k].pc \in {"fin", "done"}]_vars

\* A first turn put reply audio, saw caller activity during the silence
\* window and has finished.
ActivityWitness ==
  \E k \in Turns :
    /\ task[k].cat = "activity"
    /\ task[k].pc = "done"
    /\ hist.turn[k].reply > 0
\* C17: when the synthesizer of a reply fragment raises, the turn goes back to
\* its reply generator for the next fragment.
FailedFragmentOnlySkipped ==
  [][\A k \in Turns :
       (Runs(k, "tts") /\ task'[k].cat = "raised") => task'[k].pc = "gen"]_vars

\* C18: a turn that has finished without being cancelled and has put reply
\* audio on its queue (so it produced a fragment) has made its
\* log_conversation call.
ProducedReplyIsRecorded ==
  \A k \in Turns :
    (/\ task[k].pc = "done"
     /\ task[k].cat \in {"", "raised", "activity"}
     /\ hist.turn[k].reply > 0)
      => task[k].logged

\* C19: however the await of log_conversation ends in a turn that is not
\* being cancelled (it returns or it raises), the turn emits no error event,
\* registers its activity Event (the continuation decision), goes to the
\* silence window or to its finally block, and if it finishes in that step it
\* has put None on its queue.
RecorderFailureSwallowed ==
  [][\A k \in Turns :
       (Runs(k, "log") /\ task'[k].pc # "log")
         => /\ ~task'[k].error_event
            /\ task'[k].cat = ""
            /\ event_queues' = event_queues
            /\ user_activity_events' = k
            /\ task'[k].pc \in {"wait", "fin", "done"}
            /\ task'[k].pc = "done" => hist'.turn[k].fin]_vars

\* A turn whose log_conversation await has ended finished normally, with no
\* error event and its own None on the queue.
RecordedTurnWitness ==
  \E k \in Turns :
    /\ task[k].logged
    /\ task[k].pc = "done"
    /\ task[k].cat = ""
    /\ ~task[k].error_event
    /\ ~task[k].cont_event
    /\ hist.turn[k].fin

\* C21: the call has one turn counter: an entry of _call_configs is created
\* for the call only while no turn has counted yet, and no two turns obtain
\* the same turn number.
OneSharedTurnCounter ==
  /\ [](\A j, k \in Turns :
          (j # k /\ task[j].turn > 0) => task[k].turn # task[j].turn)
  /\ [][(call_configs = -1 /\ call_configs' # -1)
          => \A j \in Turns : task[j].turn = 0]_vars

\* C22: while the call has not ended and no utterance is being handled, a
\* call one of whose turns ran to its end still has its relay queue
\* registered: GET /audio/response-stream finds it.
QueueOutlivesTurn ==
  ( /\ phase = "live"
    /\ \A k \in Turns : handler[k].pc # "await"
    /\ \E k \in Turns : task[k].pc = "done" /\ task[k].cat = "" )
    => audio_streams # 0

\* Position of a chunk kind in the order a turn pushes: filler, reply,
\* follow-up.
KindRank(kind) ==
  IF kind = "filler" THEN 1 ELSE IF kind = "reply" THEN 2 ELSE 3

\* C23: the relay queue of a turn is a lossless FIFO up to the sentinel: what
\* waits in the queue is in push order (filler, reply fragments, follow-up),
\* and once the consumer has read the sentinel no chunk the turn pushed is
\* left unread in the queue.
RelayQueueLossless ==
  \A q \in Turns :
    /\ \A i, j \in 1..Len(queue[q]) :
         (i < j /\ queue[q][i] # "None" /\ queue[q][j] # "None")
           => KindRank(queue[q][i]) <= KindRank(queue[q][j])
    /\ consumer[q] = "done"
         => \A i \in 1..Len(queue[q]) : queue[q][i] = "None"

\* C24: stream_coldcall_reply flushes after a delta exactly when the buffer
\* has at least 80 characters, or contains a delimiter and has at least 60;
\* a flush yields the trimmed buffer as one fragment (nothing when it is
\* blank) and empties the buffer; the end of the stream yields the trimmed
\* remainder when it is not blank; every fragment is non-empty and trimmed.
FragmentFlushRule ==
  /\ [](\A i \in 1..Len(reply.out) :
          /\ reply.out[i] # <<>>
          /\ reply.out[i][1] \notin {" ", "\n"}
          /\ reply.out[i][Len(reply.out[i])] \notin {" ", "\n"})
  /\ [][(reply.pc = "stream" /\ reply'.pc = "stream" /\ reply' # reply)
          => \E delta \in Deltas :
               LET b == reply.buffer \o delta
                   flush ==
                     \/ Len(b) >= 80
                     \/ /\ Len(b) >= 60
                        /\ \E i \in 1..Len(b) : b[i] \in {".", "?", "!", "\n"}
               IN IF flush
                    THEN /\ reply'.buffer = <<>>
                         /\ reply'.out = IF Strip(b) = <<>> THEN reply.out
                                         ELSE Append(reply.out, Strip(b))
                    ELSE /\ reply'.buffer = b
                         /\ reply'.out = reply.out]_vars
  /\ [][(reply.pc = "stream" /\ reply'.pc = "done")
          => reply'.out = IF Strip(reply.buffer) = <<>> THEN reply.out
                          ELSE Append(reply.out, Strip(reply.buffer))]_vars

\* A fragment released at exactly 60 characters by a delimiter, then a short
\* trailing fragment at the end of the stream.
FlushAtMinimumWitness ==
  /\ reply.pc = "done"
  /\ Len(reply.out) = 2
  /\ Len(reply.out[1]) = 60
  /\ Len(reply.out[2]) < 60

\* The message events the subscriber was sent.
SentMessages == SelectSeq(sse.sent, LAMBDA e : e[1] = "message")

\* C25: the subscriber of a call's event queue gets every event once and in
\* enqueue order, also across pings: at most one read of the queue is
\* pending, only the read the generator awaits takes an item, the generator
\* never fails, and "[DONE]" ends the stream with a done event after every
\* event enqueued.
SseExactlyOnceInOrder ==
  /\ Cardinality({i \in Loops :
                    sse.msg_task[i].pc \in {"waiting", "woken"}}) <= 1
  /\ \A i \in Loops :
       sse.msg_task[i].pc = "done" => (i = sse.loops /\ sse.pc = "wait")
  /\ sse.pc # "crashed"
  /\ \A n \in 1..Len(SentMessages) : SentMessages[n] = Event(n)
  /\ sse.pc = "done"
       => /\ sse.sent[Len(sse.sent)] = <<"done", 0>>
          /\ Len(SentMessages) = sse.put

\* The request that schedules a coroutine.
Scheduler(c) ==
  IF c = "conversation log" THEN "transcribe"
  ELSE IF c \in {"lead log", "call log"} THEN "call" ELSE "status"

\* C26: a scheduled logging coroutine is entered once, never twice, and only
\* after its handler scheduled it; an exception it raised has been logged;
\* no step of a coroutine changes a request or its response, and a request
\* that scheduled a coroutine answers 200 whatever the coroutine did.
BackgroundLogRunsOnce ==
  /\ [](\A c \in Coroutines :
          /\ bg.co[c].runs <= 1
          /\ bg.co[c].pc \in {"running", "done"} => bg.co[c].runs = 1
          /\ bg.co[c].raised => bg.co[c].logged
          /\ (bg.co[c].pc # "none" /\ bg.req[Scheduler(c)].pc = "done")
               => bg.req[Scheduler(c)].resp = 200)
  /\ [][\A c \in Coroutines :
          (bg.co[c].pc # "none" /\ bg'.co[c] # bg.co[c]) => bg'.req = bg.req]_vars

\* The status log raised after the webhook had answered; the call event
\* returned.
FailedStatusLogWitness ==
  /\ bg.req["status"] = [pc |-> "done", resp |-> 200]
  /\ bg.co["status log"].pc = "done"
  /\ bg.co["status log"].raised
  /\ bg.co["call event"].pc = "done"
  /\ ~bg.co["call event"].raised

UpdateStatusFrame ==
  [][store'.last.op = "update"
       => LET r == store'.last
          IN IF r.id \in 1..Len(store.calls)
               THEN /\ r.code = 200
                    /\ Len(store'.calls) = Len(store.calls)
                    /\ store'.calls[r.id].status = r.status
                    /\ store'.calls[r.id].provider_sid =
                         IF r.provider_sid = 0
                           THEN store.calls[r.id].provider_sid
                           ELSE r.provider_sid
                    /\ \A j \in 1..Len(store.calls) :
                         j # r.id => store'.calls[j] = store.calls[j]
                    /\ store'.file = store'.calls
               ELSE /\ r.code = 404
                    /\ store'.calls = store.calls
                    /\ store'.file = store.file]_vars

\* An update without provider_sid that kept the SID of a placed call.
KeptSidWitness ==
  /\ store.last.op = "update"
  /\ store.last.code = 200
  /\ store.last.provider_sid = 0
  /\ store.calls[store.last.id].provider_sid # 0
  /\ Len(store.calls) = 2

\* Positions in the frames sent to the client of the frames of one type that
\* answer the n-th client frame.
Sent(type, n) == {i \in 1..Len(ws.out) : ws.out[i] = <<type, n>>}

\* C29: every user_text frame with text that the consumer received is
\* answered, once the consumer is back at receive_text or has ended, by one
\* bot_text followed by one done, or by one error and no done; answers come
\* in the order of the frames.
UserTextAnswered ==
  /\ \A n \in 1..MaxFrames :
       /\ Cardinality(Sent("bot_text", n)) <= 1
       /\ Cardinality(Sent("done", n)) <= 1
       /\ Cardinality(Sent("error", n)) <= 1
       /\ \A d \in Sent("done", n) : \E b \in Sent("bot_text", n) : b < d
       /\ Sent("error", n) # {} => Sent("bot_text", n) \cup Sent("done", n) = {}
  /\ \A i, j \in 1..Len(ws.out) :
       (i < j /\ ws.out[i][2] > 0 /\ ws.out[j][2] > 0)
         => ws.out[i][2] <= ws.out[j][2]
  /\ ws.consumer.pc \in {"recv", "cancelled"}
       => \A i \in 1..Len(ws.got) :
            \/ Sent("bot_text", ws.got[i]) # {} /\ Sent("done", ws.got[i]) # {}
            \/ Sent("error", ws.got[i]) # {}

\* C30: while the client stays connected, a keep-alive timeout leaves the
\* consumer running and the connection open.
KeepAliveKeepsSession ==
  /\ ~ws.consumer.cancel
  /\ ws.consumer.pc # "cancelled"
  /\ ws.pc # "closed"

MissingClientReported ==
  ~coldcall.async_client /\ coldcall.pc \notin {"idle", "create"}
    /\ coldcall.error # <<RunningLoopError>> =>
      /\ coldcall.pc = "raised"
      /\ coldcall.parts = 0
      /\ \E i \in 1..Len(coldcall.error) :
           coldcall.error[i] = MissingOpenaiError(coldcall)

\* The characters of a text or of a list of chunks that are not whitespace.
RECURSIVE Letters(_)
Letters(s) ==
  IF s = <<>> THEN <<>>
  ELSE IF Head(s) \in Whitespace THEN Letters(Tail(s))
  ELSE <<Head(s)>> \o Letters(Tail(s))

RECURSIVE Concat(_)
Concat(ss) == IF ss = <<>> THEN <<>> ELSE Head(ss) \o Concat(Tail(ss))

\* s occurs in t as a contiguous piece.
Within(s, t) ==
  \E i \in 0..(Len(t) - Len(s)) : SubSeq(t, i + 1, i + Len(s)) = s

\* The chunks are in text order and lose nothing but whitespace.
ChunksInOrder ==
  chunker.pc = "returned" =>
    Letters(Concat(chunker.out)) = Letters(chunker.text)

\* No chunk is longer than max_chars.
ChunksFit ==
  chunker.pc = "returned" =>
    \A i \in 1..Len(chunker.out) : Len(chunker.out[i]) <= chunker.max_chars

\* A sentence that fits is whole in one chunk; only longer ones are wrapped.
SentencesWhole ==
  chunker.pc = "returned" =>
    LET sents == Sents(chunker.text)
    IN \A j \in 1..Len(sents) :
         Len(sents[j]) <= chunker.max_chars =>
           \E i \in 1..Len(chunker.out) : Within(sents[j], chunker.out[i])

\* C33: for every text and every max_chars >= 1, split_text_for_tts returns
\* chunks in text order, each non-empty and at most max_chars long, whole
\* sentences merged while they fit and only a longer sentence hard-wrapped.
ChunksWellFormed ==
  /\ ChunksInOrder
  /\ ChunksFit
  /\ SentencesWhole
  /\ chunker.pc = "returned" =>
       \A i \in 1..Len(chunker.out) : chunker.out[i] # <<>>

\* C34: on a first turn, the end-of-turn sentinel of the reply is put on the
\* relay queue when the reply generator stream ends, before the continuation
\* wait begins: a turn that is in the continuation wait, or past it in the
\* follow-up, has a sentinel on record for its queue.
SentinelBeforeContinuationWait ==
  \A k \in Turns :
    IsFirstTurn(task[k]) /\ task[k].pc \in {"wait", "cgen", "ctts", "clog"} =>
      hist.turn[k].sent > 0

\* C35: for every turn exactly one end-of-turn sentinel is put on its relay
\* queue, however the turn ends (completion, failure, superseded by a new
\* utterance, end of the call): never a second one, and one once its task is
\* done.
ExactlyOneSentinel ==
  \A k \in Turns :
    /\ hist.turn[k].sent <= 1
    /\ task[k].pc = "done" => hist.turn[k].sent = 1

\* C36: once caller activity is signalled while the follow-up is being
\* streamed, no further continuation chunk is put on the queue, no
\* continuation event is emitted and log_conversation is not called for the
\* follow-up.
ActivityStopsFollowUp ==
  [][\A k \in Turns :
       task[k].ev = "set" /\ task[k].pc \in {"cgen", "ctts"} =>
         /\ hist'.turn[k].cont = hist.turn[k].cont
         /\ queue'[k] = queue[k] \/ Len(queue'[k]) < Len(queue[k])
              \/ queue'[k] = Append(queue[k], "None")
         /\ task'[k].cont_event = task[k].cont_event
         /\ task'[k].pc # "clog"]_vars

\* Activity was signalled while a follow-up fragment was being synthesized,
\* before its next chunk.
ActivityDuringFollowUpWitness ==
  \E k \in Turns :
    /\ Runs(k, "ctts")
    /\ task[k].ev = "set"
    /\ task[k].n = 0
    /\ ~task[k].cont_event

\* C37: in every relay queue no audio chunk is enqueued after a sentinel:
\* once None has been put on the queue of a turn, no task (turn task or
\* backchannel task) puts a chunk on it.
NoChunkAfterSentinel ==
  [][\A k \in Turns :
       hist.turn[k].sent > 0 =>
         /\ hist'.turn[k].filler = hist.turn[k].filler
         /\ hist'.turn[k].reply = hist.turn[k].reply
         /\ hist'.turn[k].cont = hist.turn[k].cont]_vars

\* C38: a turn task that finishes or is cancelled removes from the
\* registries only its own queue and its own task handle: the entries a
\* newer turn installed for the call are left as they are.
TurnRemovesOnlyOwnEntries ==
  [][\A k \in Turns :
       Unfinished(k) /\ task'[k].pc = "done" =>
         /\ audio_streams' = IF audio_streams = k THEN 0 ELSE audio_streams
         /\ audio_stream_tasks' =
              IF audio_stream_tasks = k THEN 0 ELSE audio_stream_tasks]_vars

\* A turn ran its finally block while the handler that cancelled it was
\* still suspended, and the registries hold the entries of a turn that a
\* later handler installed.
NewerEntriesKeptWitness ==
  \E j \in Turns, k \in Turns :
    /\ j < k
    /\ task[j].pc = "done"
    /\ hist.turn[j].fin
    /\ \E h \in Turns : handler[h].pc = "await" /\ handler[h].waits = j
    /\ audio_streams = k
    /\ audio_stream_tasks = k
    /\ Unfinished(k)

\* C39: caller activity signalled at any time after a first turn has
\* started, also while its reply is still being generated, prevents the
\* silence continuation of that turn: a first turn that a partial transcript
\* reached before its follow-up could begin never streams a follow-up.
ActivityPreventsContinuation ==
  \A k \in Turns :
    hist.turn[k].heard =>
      /\ task[k].pc \notin {"cgen", "ctts", "clog"}
      /\ hist.turn[k].cont = 0
      /\ ~task[k].cont_event

\* What the call did is a run of attempts of which only the last can have
\* succeeded, with a sleep of RETRY_BACKOFF * attempt after each attempt that
\* another one follows.
ElevenAttempts ==
  /\ Len(tts.posts) <= HTTP_RETRIES
  /\ \A i \in 1..(Len(tts.posts) - 1) : ~IsAudio(tts.posts[i])
  /\ Len(tts.sleeps) <= HTTP_RETRIES - 1
  /\ \A i \in 1..Len(tts.sleeps) : tts.sleeps[i] = RETRY_BACKOFF * i
  /\ Len(tts.sleeps) =
       IF tts.pc \in {"returned", "raised"} /\ tts.posts # <<>>
         THEN Len(tts.posts) - 1 ELSE Len(tts.posts)

ElevenOutcome ==
  /\ tts.pc = "returned" =>
       tts.result = "audio" /\ IsAudio(tts.posts[Len(tts.posts)])
  /\ tts.pc = "raised" =>
       /\ tts.result = "RuntimeError"
       /\ \A i \in 1..Len(tts.posts) : ~IsAudio(tts.posts[i])
       /\ tts.ELEVEN_API_KEY => Len(tts.posts) = HTTP_RETRIES

\* C40: elevenlabs_tts_to_bytes makes at most HTTP_RETRIES attempts, returns
\* the audio of the first successful attempt without a further attempt,
\* sleeps RETRY_BACKOFF * attempt between attempts but not after the last
\* one, raises RuntimeError once all attempts have failed, and always
\* terminates.
ElevenRetryContract ==
  /\ [](ElevenAttempts /\ ElevenOutcome)
  /\ [][tts.pc \in {"returned", "raised"} => tts' = tts]_vars
  /\ <>(tts.pc \in {"returned", "raised"})

\* All attempts failed, with a sleep after each but the last.
AllAttemptsFailedWitness ==
  /\ tts.pc = "raised"
  /\ Len(tts.posts) = HTTP_RETRIES
  /\ Len(tts.sleeps) = HTTP_RETRIES - 1

====
